---- MODULE Spec2Model ----
(***************************************************************************)
(* Batch-tick DRT dispatch engine (module/engine/engine.py and the         *)
(* insertion, assignment and rebalance modules it calls).                   *)
(*                                                                          *)
(* Geometry.  All stops lie on one straight street.  A coordinate is the    *)
(* number of seconds the street takes from its western end at the fallback  *)
(* speed (use_osrm = False), so the straight-line leg time of               *)
(* segment_times is |a - b|.  Request origins and destinations are the      *)
(* points of Grid; a vehicle may stand between two of them after a partial  *)
(* move.  Times are integer seconds.                                        *)
(***************************************************************************)
EXTENDS Integers, Sequences, FiniteSets, TLC

(* ---------------- bounds of the checked instances ---------------- *)
NumReq == 2          \* requests in the input list
MaxTime == 40        \* clock cap of the main loop and the tail flush
LapDim == 2          \* rows and columns of the cost matrices solve_lap is checked on
InsLen == 2          \* stops of the schedule best_insertion_for_vehicle is checked on
EffMaxRetries == 2   \* largest max_retries of the parameter sets _eff_limits is checked on

(* ---------------- ServiceParams (config.py), scaled ---------------- *)
fleet_size == 2                \* fleets of 0..fleet_size vehicles are checked
batch_seconds == 3
service_time_sec == 1
vehicle_capacity == 2
pickup_late_sec == 5
detour_ratio_max_q == 8        \* detour_ratio_max 2.0, in quarters
max_retries == 1
wait_bonus_per_retry_sec == 3
wait_bonus_cap_sec == 3
detour_bonus_per_retry_q == 1  \* 0.25, in quarters
detour_bonus_cap_q == 12       \* 3.0, in quarters
big_m == 1000000
tail_flush_max_sec == 6
enable_rebalance == TRUE
k_top == 3

\* the stops of the street: where requests start and end and vehicles first stand
Grid == {0, 2, 4}
\* entries of the cost matrices solve_lap is checked on: three costs and "infeasible"
CostVals == {1, 2, 4, big_m}
\* the gaps between the t_request of consecutive requests of the input
Gaps == {0, 2, 4}
PoolGaps == {0, 4}

VARIABLES
  requests,       \* rid -> [o, d, t_request]; the input list, sorted by t_request
  vehicles,       \* sequence of [lon, schedule, onboard_reqs, t_avail]
  current,        \* clock of run_batches
  next_idx,       \* number of requests read so far
  pending,        \* sequence of request ids
  pending_state,  \* rid -> [retry_idx, late_eff, deadline]
  retries,        \* rid -> retry index (statistics table)
  attempts,       \* rid -> [attempt, final_status]
  allowed_late,   \* rid -> late bound fixed at assignment
  served, rejected,   \* lists of request ids
  events,         \* list of [type, veh_id, req_id, t, reason]
  reroutes,       \* list of [t, veh_id, before, after]
  assigned_ids,   \* requests committed by the LAP phase of this tick
  refused,        \* requests whose LAP pair the commit guard refused in this tick
  todo,           \* LAP pairs (decisions) still to be committed in this tick
  rb_pairs,       \* rebalance pairs still to be tried in this tick
  served_now,     \* requests assigned by rebalance in this tick
  lastApply,      \* the last call of _sched_apply: its inputs and its answer
  lap_io,         \* a call of solve_lap: [cost, m, n, branch, pairs]
  ins_io,         \* a call of best_insertion_for_vehicle: its windows, trials, answer
  eff_io,         \* two calls of _eff_limits: [P, k, k2, lo, hi]
  osrm,           \* the routing oracle: [use, up, cache]
  pc              \* position in run_batches

total_reqs == Len(requests)
ReqIds == 1..total_reqs

vars == <<requests, eff_io, ins_io, lap_io, osrm, vehicles, current, next_idx, pending, pending_state, retries,
          attempts, allowed_late, served, rejected, events, reroutes,
          assigned_ids, refused, todo, rb_pairs, served_now, lastApply, pc>>

(* ---------------- small helpers ---------------- *)
Abs(x) == IF x < 0 THEN -x ELSE x
Min2(a, b) == IF a <= b THEN a ELSE b
Max2(a, b) == IF a >= b THEN a ELSE b
SeqToSet(s) == {s[i] : i \in 1..Len(s)}
Get(f, k, dflt) == IF k \in DOMAIN f THEN f[k] ELSE dflt
Put(f, k, v) == [x \in (DOMAIN f) \cup {k} |-> IF x = k THEN v ELSE f[x]]
Count(s, x) == Cardinality({i \in 1..Len(s) : s[i] = x})

\* Timestamps are naturals. Two further values stand for what a Request may carry
\* instead: a float NaN, and a value that is no number at all (a str, None).
NaN == 0 - 1
NonNumeric == 0 - 2
\* "not isinstance(t, (int, float)) or math.isnan(t)"
bad_t_request(t) == t \in {NaN, NonNumeric}
\* float comparison and addition: a comparison with NaN is false, NaN + x is NaN
lt(a, b) == a # NaN /\ b # NaN /\ a < b
le(a, b) == a # NaN /\ b # NaN /\ a <= b
plus_drops_step(a, b) == a
plus(a, b) == IF a = NaN \/ b = NaN THEN NaN ELSE a + b

\* insert_pick_window and insert_drop_window are None (unset) or a number
NoWindow == 0 - 1
insert_pick_window == NoWindow
insert_drop_window == NoWindow

\* the list [F(1), ..., F(n)]
ListOf(n, F(_)) == <<>> \o [i \in 1..n |-> F(i)]

Stop(kind, rid, at) == [kind |-> kind, req_id |-> rid, lon |-> at]

\* segment_times, straight-line fallback: one leg from a to b
segment_time(a, b) == Abs(a - b)

\* straight_line_seconds: the OD time of the detour check
straight_line_seconds(a, b) == Abs(a - b)

(* ---------------- _eff_limits ---------------- *)
\* dataclasses.replace builds a new ServiceParams from the declared fields:
\* the attribute _drop_deadline_abs that run_batches set on P with setattr is
\* not a field and is absent from the relaxed copy.
\* P as run_batches holds it, after setattr(P, "_drop_deadline_abs", ...)
ServiceParams ==
  [ pickup_late_sec          |-> pickup_late_sec,
    detour_ratio_max         |-> detour_ratio_max_q,
    max_retries              |-> max_retries,
    wait_bonus_per_retry_sec |-> wait_bonus_per_retry_sec,
    wait_bonus_cap_sec       |-> wait_bonus_cap_sec,
    detour_bonus_per_retry   |-> detour_bonus_per_retry_q,
    detour_bonus_cap         |-> detour_bonus_cap_q,
    has_drop_deadline        |-> TRUE,
    insert_pick_window       |-> insert_pick_window,
    insert_drop_window       |-> insert_drop_window ]

eff_limits_of(P, k) ==
  IF k <= 0 THEN P
  ELSE [P EXCEPT
          !.detour_ratio_max = Min2(P.detour_ratio_max + P.detour_bonus_per_retry * k,
                                    P.detour_bonus_cap),
          !.pickup_late_sec = P.pickup_late_sec
                              + Min2(P.wait_bonus_per_retry_sec * k, P.wait_bonus_cap_sec),
          !.has_drop_deadline = FALSE]

eff_limits(k) == eff_limits_of(ServiceParams, k)

NoEff == [P |-> ServiceParams, k |-> 0, k2 |-> 0, lo |-> ServiceParams, hi |-> ServiceParams]

t_end == requests[total_reqs].t_request
drop_deadline_abs == t_end + tail_flush_max_sec

(* ---------------- the routing oracle (OSRM client) ---------------- *)
\* use: P.use_osrm; up: the server answers; cache: the <<start, end>> keys of
\* route_full that were answered before
NoOsrm == [use |-> FALSE, up |-> FALSE, cache |-> {}]

\* route_full(start, end) returns: from the cache, or from the server when it is up;
\* otherwise requests.get raises (timeout, connection or HTTP error)
route_answers(a, b) == <<a, b>> \in osrm.cache \/ osrm.up

\* the cache after the calls with the keys `asked`, made while the server is up
cache_after(asked) ==
  [osrm EXCEPT !.cache = IF osrm.use /\ osrm.up THEN @ \cup asked ELSE @]

(* ---------------- _simulate_schedule ---------------- *)
\* the loop of lines 23-30 from stop i on: t is the clock and lon the place before it
RECURSIVE ArrivalsFrom(_, _, _, _)
ArrivalsFrom(lon, sched, i, t) ==
  IF i > Len(sched) THEN <<>>
  ELSE LET arr == t + segment_time(lon, sched[i].lon)
       IN <<arr>> \o ArrivalsFrom(sched[i].lon, sched, i + 1, arr + service_time_sec)

simulate_schedule(lon, sched) ==
  LET arrivals == ArrivalsFrom(lon, sched, 1, 0)
  IN [ total    |-> IF Len(sched) = 0 THEN 0
                    ELSE arrivals[Len(sched)] + service_time_sec,
       arrivals |-> arrivals ]

IndexOf(sched, kind, rid) ==
  LET hits == {i \in 1..Len(sched) : sched[i].kind = kind /\ sched[i].req_id = rid}
  IN IF hits = {} THEN 0 ELSE CHOOSE i \in hits : \A j \in hits : i <= j

(* ---------------- evaluate_feasibility_and_cost ---------------- *)
\* the capacity walk of lines 45-57: TRUE iff the load stays in [0, capacity]
RECURSIVE LoadWalkOK(_, _, _, _)
LoadWalkOK(sched, i, load, onboard) ==
  IF i > Len(sched) THEN TRUE
  ELSE LET s == sched[i]
           load2 == IF s.kind = "pickup"
                    THEN (IF s.req_id \notin onboard THEN load + 1 ELSE load)
                    ELSE (IF s.req_id \in onboard THEN load - 1 ELSE load)
           onb2  == IF s.kind = "pickup" THEN onboard \cup {s.req_id}
                    ELSE onboard \ {s.req_id}
       IN IF load2 > vehicle_capacity \/ load2 < 0 THEN FALSE
          ELSE LoadWalkOK(sched, i + 1, load2, onb2)

\* ride / max(1, od) > detour_ratio_max, in quarters
DetourExceeds(ride, od, limit_q) == 4 * ride > limit_q * Max2(1, od)

\* the pickup window of lines 78-82: t_request <= t_pick <= t_request + pickup_late_sec
PickupWindowLateOnly(rid, t_pick, P) ==
  t_pick <= requests[rid].t_request + P.pickup_late_sec

PickupWindowStrict(rid, t_pick, P) ==
  /\ requests[rid].t_request < t_pick
  /\ t_pick < requests[rid].t_request + P.pickup_late_sec

PickupWindowOK(rid, t_pick, P) ==
  /\ requests[rid].t_request <= t_pick
  /\ t_pick <= requests[rid].t_request + P.pickup_late_sec

\* the capacity walk of lines 45-57 from the vehicle's present load
CapacityWalkOff(v, new_sched) == TRUE

CapacityWalkOK(v, new_sched) ==
  LoadWalkOK(new_sched, 1, Len(v.onboard_reqs), SeqToSet(v.onboard_reqs))

\* lines 39-87: the checks that come before the detour check; TRUE iff the trial
\* passes them and the evaluation goes on to ask for the OD time (lines 90-93)
reaches_detour_check(v, new_sched, rid, P, now_abs) ==
  LET n_events == Cardinality({i \in 1..Len(new_sched) :
                                 new_sched[i].kind \in {"pickup", "dropoff"}})
      pi       == IndexOf(new_sched, "pickup", rid)
      di       == IndexOf(new_sched, "dropoff", rid)
      sim      == simulate_schedule(v.lon, new_sched)
      t_pick   == now_abs + sim.arrivals[pi]
  IN IF n_events > 2 * vehicle_capacity THEN FALSE
     ELSE IF ~CapacityWalkOK(v, new_sched) THEN FALSE
     ELSE IF \E q \in SeqToSet(v.onboard_reqs) : IndexOf(new_sched, "dropoff", q) = 0
          THEN FALSE
     ELSE IF pi = 0 \/ di = 0 THEN FALSE
     ELSE IF di <= pi THEN FALSE
     ELSE PickupWindowOK(rid, t_pick, P)

\* the oracle's oneway_duration_sec, when it answers, is the travel time of the
\* street, which is straight_line_seconds
evaluate_feasibility_and_cost(v, new_sched, rid, P, now_abs) ==
  LET r        == requests[rid]
      pi       == IndexOf(new_sched, "pickup", rid)
      di       == IndexOf(new_sched, "dropoff", rid)
      sim      == simulate_schedule(v.lon, new_sched)
      t_pick   == now_abs + sim.arrivals[pi]
      t_drop   == now_abs + sim.arrivals[di]
      ride     == Max2(0, t_drop - (t_pick + service_time_sec))
      od_sec   == straight_line_seconds(r.o, r.d)
      no       == [feas |-> FALSE, cost |-> big_m]
  IN IF ~reaches_detour_check(v, new_sched, rid, P, now_abs) THEN no
     ELSE IF DetourExceeds(ride, od_sec, P.detour_ratio_max) THEN no
     ELSE IF P.has_drop_deadline /\ t_drop > drop_deadline_abs THEN no
     ELSE [feas |-> TRUE, cost |-> sim.total]

(* ---------------- best_insertion_for_vehicle ---------------- *)
NoDecision == [req_id |-> 0, veh_id |-> 0, new_schedule |-> <<>>, cost_sec |-> big_m]

\* sched[:i] + [pickup] + sched[i:j-1] + [dropoff] + sched[j-1:]   (0-based i, j)
Trial(sched, rid, i, j) ==
  SubSeq(sched, 1, i)
    \o <<Stop("pickup", rid, requests[rid].o)>>
    \o SubSeq(sched, i + 1, j - 1)
    \o <<Stop("dropoff", rid, requests[rid].d)>>
    \o SubSeq(sched, j, Len(sched))

\* lines 120-124 and 129-133: the last pickup position and, for the pickup position
\* i, the last dropoff position of the scan
pick_end(n, P) ==
  IF P.insert_pick_window = NoWindow THEN n
  ELSE Min2(n, Max2(1, P.insert_pick_window))

drop_last(n, i, P) ==
  IF P.insert_drop_window = NoWindow THEN n + 1
  ELSE Min2(n + 1, i + 1 + Max2(1, P.insert_drop_window))

\* the positions <<i, j>> the function evaluates, in the order of the two loops;
\* an empty schedule has the one trial [pickup, dropoff] (lines 111-116)
scan_positions(n, P) ==
  IF n = 0 THEN << <<0, 1>> >>
  ELSE LET S == {ij \in (0..pick_end(n, P)) \X (1..(n + 1)) :
                   ij[2] >= ij[1] + 1 /\ ij[2] <= drop_last(n, ij[1], P)}
           rank(p) == Cardinality({q \in S : q[1] < p[1] \/ (q[1] = p[1] /\ q[2] < p[2])}) + 1
       IN [k \in 1..Cardinality(S) |-> CHOOSE p \in S : rank(p) = k]

RECURSIVE scan_best_ties_late(_, _, _, _, _, _, _)
scan_best_ties_late(rid, vi, P, now_abs, pos, k, best) ==
  IF k > Len(pos) THEN best
  ELSE LET trial == Trial(vehicles[vi].schedule, rid, pos[k][1], pos[k][2])
           ev    == evaluate_feasibility_and_cost(vehicles[vi], trial, rid, P, now_abs)
       IN scan_best_ties_late(rid, vi, P, now_abs, pos, k + 1,
                    IF ev.feas /\ (best = NoDecision \/ ev.cost <= best.cost_sec)
                    THEN [req_id |-> rid, veh_id |-> vi, new_schedule |-> trial,
                          cost_sec |-> ev.cost]
                    ELSE best)

\* the scan of lines 126-150 from position k of pos on: a feasible trial replaces
\* best when there is none yet or when it is strictly cheaper
RECURSIVE scan_best(_, _, _, _, _, _, _)
scan_best(rid, vi, P, now_abs, pos, k, best) ==
  IF k > Len(pos) THEN best
  ELSE LET trial == Trial(vehicles[vi].schedule, rid, pos[k][1], pos[k][2])
           ev    == evaluate_feasibility_and_cost(vehicles[vi], trial, rid, P, now_abs)
       IN scan_best(rid, vi, P, now_abs, pos, k + 1,
                    IF ev.feas /\ (best = NoDecision \/ ev.cost < best.cost_sec)
                    THEN [req_id |-> rid, veh_id |-> vi, new_schedule |-> trial,
                          cost_sec |-> ev.cost]
                    ELSE best)

best_insertion_for_vehicle(rid, vi, P, now_abs) ==
  scan_best(rid, vi, P, now_abs, scan_positions(Len(vehicles[vi].schedule), P), 1,
            NoDecision)

\* best_insertion_for_vehicle called on its own: no call yet
NoIns == [pick_window |-> NoWindow, drop_window |-> NoWindow, trials |-> <<>>,
          dec |-> NoDecision]

\* some trial of the scan reaches the detour check, so oneway_duration_sec is called
\* with the key <<r.o, r.d>>
asks_od(rid, vi, P, now_abs) ==
  LET v     == vehicles[vi]
      n     == Len(v.schedule)
  IN osrm.use /\
     \E ij \in SeqToSet(scan_positions(n, P)) :
        reaches_detour_check(v, Trial(v.schedule, rid, ij[1], ij[2]), rid, P, now_abs)

\* allowed_late[rid] = late_eff after a successful _sched_apply
fix_allowed_late_base(al, rid, late_eff) == Put(al, rid, pickup_late_sec)
fix_allowed_late(al, rid, late_eff) == Put(al, rid, late_eff)

insertion_dropped(rid, vi, P, now_abs) == NoDecision

\* best_insertion_for_vehicle inside the caller's try/except (engine.py:331-335 and
\* 256-260): an exception of the oracle leaves the caller without a decision
insertion_or_none(rid, vi, P, now_abs) ==
  IF asks_od(rid, vi, P, now_abs) /\ ~route_answers(requests[rid].o, requests[rid].d)
  THEN NoDecision
  ELSE best_insertion_for_vehicle(rid, vi, P, now_abs)

(* ---------------- solve_lap ---------------- *)
lap_cut == big_m \div 10       \* the "val < 1e11" filter, 0.1 * big_m

RECURSIVE SumCost(_, _)
SumCost(cost, S) ==
  IF S = {} THEN 0
  ELSE LET p == CHOOSE x \in S : TRUE
       IN cost[p[1]][p[2]] + SumCost(cost, S \ {p})

Injective_off(f) == TRUE

Injective(f) == \A a, b \in DOMAIN f : a # b => f[a] # f[b]

\* the complete 1:1 assignments of an m x n matrix, as sets of <<row, col>>
Assignments(m, n) ==
  IF m <= n
  THEN {{<<i, f[i]>> : i \in 1..m} : f \in {g \in [1..m -> 1..n] : Injective(g)}}
  ELSE {{<<f[j], j>> : j \in 1..n} : f \in {g \in [1..n -> 1..m] : Injective(g)}}

\* a set of cells as the list linear_sum_assignment returns: rows ascending
RowOrder(S) ==
  LET rank(p) == Cardinality({q \in S : q[1] < p[1]}) + 1
  IN [k \in 1..Cardinality(S) |-> CHOOSE p \in S : rank(p) = k]

\* scipy branch: an assignment of minimum total cost, cells at or above the cut dropped
lap_optimal(cost, m, n) ==
  LET all  == Assignments(m, n)
      sums == {SumCost(cost, A) : A \in all}
      best == CHOOSE x \in sums : \A y \in sums : x <= y
  IN {RowOrder({p \in A : cost[p[1]][p[2]] < lap_cut}) : A \in {B \in all : SumCost(cost, B) = best}}

\* fallback branch: cells below the cut in ascending cost (stable: row-major among
\* equal costs), taken greedily with used-row and used-column sets
RECURSIVE GreedyTake(_, _, _, _)
GreedyTake(cost, items, used_i, used_j) ==
  IF items = {} THEN <<>>
  ELSE LET first == CHOOSE p \in items : \A q \in items :
                      \/ cost[p[1]][p[2]] < cost[q[1]][q[2]]
                      \/ cost[p[1]][p[2]] = cost[q[1]][q[2]] /\ p[1] < q[1]
                      \/ cost[p[1]][p[2]] = cost[q[1]][q[2]] /\ p[1] = q[1] /\ p[2] <= q[2]
           rest  == items \ {first}
       IN IF first[1] \in used_i \/ first[2] \in used_j
          THEN GreedyTake(cost, rest, used_i, used_j)
          ELSE <<first>> \o GreedyTake(cost, rest, used_i \cup {first[1]},
                                       used_j \cup {first[2]})

lap_greedy(cost, m, n) ==
  GreedyTake(cost, {p \in (1..m) \X (1..n) : cost[p[1]][p[2]] < lap_cut}, {}, {})

\* the lists of pairs solve_lap may return: the optimal solver's when scipy is
\* installed, the greedy fallback's when the import fails
solve_lap(cost, m, n) == lap_optimal(cost, m, n) \cup {lap_greedy(cost, m, n)}

\* solve_lap called on its own: no call yet
NoLap == [cost |-> <<>>, m |-> 0, n |-> 0, branch |-> "", pairs |-> <<>>]

(* ---------------- _sched_apply ---------------- *)
\* old_pick_eta: pickup ETAs under the vehicle's present schedule
old_pick_eta(v, now_abs) ==
  LET arr == simulate_schedule(v.lon, v.schedule).arrivals
      picks == {i \in 1..Len(v.schedule) : v.schedule[i].kind = "pickup"}
  IN [rid \in {v.schedule[i].req_id : i \in picks} |->
        now_abs + arr[CHOOSE i \in picks :
                        /\ v.schedule[i].req_id = rid
                        /\ \A j \in picks : v.schedule[j].req_id = rid => j <= i]]

\* (1) no onboard request loses its dropoff; the new request has pickup and dropoff
IntegrityOK(v, dec) ==
  /\ \A rid \in SeqToSet(v.onboard_reqs) : IndexOf(dec.new_schedule, "dropoff", rid) # 0
  /\ IndexOf(dec.new_schedule, "pickup", dec.req_id) # 0
  /\ IndexOf(dec.new_schedule, "dropoff", dec.req_id) # 0

\* (A) with the base late bound for the new request too
PolicyGuardBase(v, dec, now_abs, allowed, this_req_allowed_late) ==
  LET new_sched == dec.new_schedule
      arr == simulate_schedule(v.lon, new_sched).arrivals
  IN \A i \in 1..Len(new_sched) :
       new_sched[i].kind = "pickup" =>
         now_abs + arr[i] <= requests[new_sched[i].req_id].t_request
                             + Get(allowed, new_sched[i].req_id, pickup_late_sec)

\* (A) eta_new <= t_request + allowed late, for every pickup of the new schedule
PolicyGuardOK(v, dec, now_abs, allowed, this_req_allowed_late) ==
  LET new_sched == dec.new_schedule
      arr == simulate_schedule(v.lon, new_sched).arrivals
      per_req_allow == Put(allowed, dec.req_id, this_req_allowed_late)
  IN \A i \in 1..Len(new_sched) :
       new_sched[i].kind = "pickup" =>
         now_abs + arr[i] <= requests[new_sched[i].req_id].t_request
                             + Get(per_req_allow, new_sched[i].req_id, pickup_late_sec)

NoRegressionOff(v, dec, now_abs) == TRUE

\* (B) eta_new <= eta_old, for every pickup that was already scheduled
NoRegressionOK(v, dec, now_abs) ==
  LET new_sched == dec.new_schedule
      arr == simulate_schedule(v.lon, new_sched).arrivals
      old == old_pick_eta(v, now_abs)
  IN \A i \in 1..Len(new_sched) :
       (new_sched[i].kind = "pickup" /\ new_sched[i].req_id \in DOMAIN old) =>
         now_abs + arr[i] <= old[new_sched[i].req_id]

\* a guard that lets a commit pass only while no late bound has been fixed yet
sched_apply_shared(v, dec, now_abs, allowed, this_req_allowed_late) ==
  /\ IntegrityOK(v, dec)
  /\ PolicyGuardOK(v, dec, now_abs, allowed, this_req_allowed_late)
  /\ NoRegressionOK(v, dec, now_abs)
  /\ DOMAIN allowed = {}

sched_apply(v, dec, now_abs, allowed, this_req_allowed_late) ==
  /\ IntegrityOK(v, dec)
  /\ PolicyGuardOK(v, dec, now_abs, allowed, this_req_allowed_late)
  /\ NoRegressionOK(v, dec, now_abs)

ApplyRecord(vi, dec, now_abs, ok) ==
  [ called |-> TRUE, veh_id |-> vi, req_id |-> dec.req_id, lon |-> vehicles[vi].lon,
    now |-> now_abs, before |-> vehicles[vi].schedule, after |-> dec.new_schedule,
    ok |-> ok, at |-> pc ]

NoApply ==
  [ called |-> FALSE, veh_id |-> 0, req_id |-> 0, lon |-> 0, now |-> 0,
    before |-> <<>>, after |-> <<>>, ok |-> FALSE, at |-> "" ]

(* ---------------- advance_vehicles ---------------- *)
Ev(type, vi, rid, t, attempt, reason) ==
  [type |-> type, veh_id |-> vi, req_id |-> rid, t |-> t, attempt |-> attempt,
   reason |-> reason]

Remove(s, x) == SelectSeq(s, LAMBDA y : y # x)

\* lines 72-74: the place reached after `remain` seconds of a leg that takes longer
partial_lon_stay(v, dest, remain) == v.lon

partial_lon(v, dest, remain) ==
  IF dest.lon >= v.lon THEN v.lon + remain ELSE v.lon - remain

\* lines 121-126: the onboard list after the stop `dest` is served
onboard_after_keep(v, dest) ==
  IF dest.kind = "pickup"
  THEN (IF dest.req_id \in SeqToSet(v.onboard_reqs) THEN v.onboard_reqs
        ELSE Append(v.onboard_reqs, dest.req_id))
  ELSE v.onboard_reqs

onboard_after(v, dest) ==
  IF dest.kind = "pickup"
  THEN (IF dest.req_id \in SeqToSet(v.onboard_reqs) THEN v.onboard_reqs
        ELSE Append(v.onboard_reqs, dest.req_id))
  ELSE Remove(v.onboard_reqs, dest.req_id)

\* one vehicle's walk through its schedule with `remain` seconds of the tick left;
\* the result is the vehicle and the events it appended
RECURSIVE advance_one(_, _, _, _, _, _)
advance_one(v, vi, remain, dt, now, evs) ==
  IF remain > 0 /\ Len(v.schedule) > 0
  THEN LET dest   == v.schedule[1]
           travel == segment_time(v.lon, dest.lon)
       IN IF travel > remain
          THEN \* partial move: the fraction remain / travel of the leg; with the
               \* oracle in use the point comes from progress_point_by_time, whose
               \* exception is not caught
               IF osrm.use /\ ~route_answers(v.lon, dest.lon)
               THEN [ v |-> v, evs |-> evs, raised |-> TRUE, asked |-> {} ]
               ELSE [ v |-> [v EXCEPT !.lon = partial_lon(v, dest, remain),
                                      !.t_avail = v.t_avail + remain],
                      evs |-> evs, raised |-> FALSE,
                      asked |-> IF osrm.use THEN {<<v.lon, dest.lon>>} ELSE {} ]
          ELSE LET remain2 == remain - travel - service_time_sec
                   onb == onboard_after(v, dest)
                   v2 == [ lon |-> dest.lon, schedule |-> Tail(v.schedule),
                           onboard_reqs |-> onb,
                           t_avail |-> v.t_avail + travel + service_time_sec ]
                   ev == Ev(IF dest.kind = "pickup" THEN "PICKUP" ELSE "DROPOFF",
                            vi, dest.req_id, now + (dt - Max2(0, remain2)), 0, "")
               IN advance_one(v2, vi, remain2, dt, now, Append(evs, ev))
  ELSE [ v |-> IF remain > 0 THEN [v EXCEPT !.t_avail = v.t_avail + remain] ELSE v,
         evs |-> evs, raised |-> FALSE, asked |-> {} ]

\* lines 93-101: the non-partial moves one vehicle's walk appends to `moves`, in
\* order; each is followed by the event of the stop it reaches
RECURSIVE full_moves(_, _, _, _, _)
full_moves(v, vi, remain, dt, now) ==
  IF remain > 0 /\ Len(v.schedule) > 0
  THEN LET dest   == v.schedule[1]
           travel == segment_time(v.lon, dest.lon)
       IN IF travel > remain
          THEN <<>>
          ELSE << [ veh_id |-> vi, t_start |-> now + (dt - remain),
                    t_end |-> now + (dt - remain) + travel, partial |-> FALSE ] >>
               \o full_moves([v EXCEPT !.lon = dest.lon, !.schedule = Tail(v.schedule)],
                             vi, remain - travel - service_time_sec, dt, now)
  ELSE <<>>

RECURSIVE advance_events(_, _, _, _)
advance_events(vs, i, dt, now) ==
  IF i > Len(vs) THEN <<>>
  ELSE LET one == advance_one(vs[i], i, dt, dt, now, <<>>)
       IN one.evs \o (IF one.raised THEN <<>> ELSE advance_events(vs, i + 1, dt, now))

\* the loop over the vehicles; it ends at the first vehicle whose move raises
advance_vehicles(vs, dt, now) ==
  LET one(i)  == advance_one(vs[i], i, dt, dt, now, <<>>)
      failing == {i \in 1..Len(vs) : one(i).raised}
      reached(i) == \A k \in failing : i <= k
  IN [ vehicles |-> [i \in 1..Len(vs) |-> IF reached(i) THEN one(i).v ELSE vs[i]],
       events   |-> advance_events(vs, 1, dt, now),
       raised   |-> failing # {},
       asked    |-> UNION {one(i).asked : i \in {k \in 1..Len(vs) : reached(k)}} ]

any_schedule_left == \E i \in 1..Len(vehicles) : Len(vehicles[i].schedule) > 0

(* ---------------- assign_idle_to_rejected ---------------- *)
\* sorted(s, key): stable, ascending in an integer key
StableSort(s, Key(_)) ==
  LET rank(i) == Cardinality({j \in 1..Len(s) :
                    \/ Key(s[j]) < Key(s[i])
                    \/ Key(s[j]) = Key(s[i]) /\ j < i}) + 1
  IN [k \in 1..Len(s) |-> s[CHOOSE i \in 1..Len(s) : rank(i) = k]]

\* _veh_req_dist without OSRM: the planar distance of the vehicle to the origin
veh_req_dist(vi, rid) == Abs(vehicles[vi].lon - requests[rid].o)

RECURSIVE rb_pairing_keeps_vehicle(_, _)
rb_pairing_keeps_vehicle(hot_sorted, idle_left) ==
  IF Len(hot_sorted) = 0 \/ Len(idle_left) = 0 THEN {<<>>}
  ELSE LET rid    == hot_sorted[1]
           scored == StableSort(idle_left, LAMBDA vi : veh_req_dist(vi, rid))
           top    == SubSeq(scored, 1, Min2(k_top, Len(scored)))
       IN UNION {{ <<(<<chosen, rid>>)>> \o rest :
                     rest \in rb_pairing_keeps_vehicle(Tail(hot_sorted), idle_left) }
                 : chosen \in SeqToSet(top)}

\* the lists of pairs the greedy pairing may return (random.choice over the top k)
RECURSIVE rb_pairing(_, _)
rb_pairing(hot_sorted, idle_left) ==
  IF Len(hot_sorted) = 0 \/ Len(idle_left) = 0 THEN {<<>>}
  ELSE LET rid    == hot_sorted[1]
           scored == StableSort(idle_left, LAMBDA vi : veh_req_dist(vi, rid))
           top    == SubSeq(scored, 1, Min2(k_top, Len(scored)))
       IN UNION {{ <<(<<chosen, rid>>)>> \o rest :
                     rest \in rb_pairing(Tail(hot_sorted), Remove(idle_left, chosen)) }
                 : chosen \in SeqToSet(top)}

\* the keys _veh_req_dist asks the oracle for while the pairs are formed: each
\* request against the idle vehicles left when its turn comes
RECURSIVE rb_asked(_, _)
rb_asked(pairs, idle_left) ==
  IF Len(pairs) = 0 \/ ~osrm.use THEN {}
  ELSE {<<vehicles[vi].lon, requests[pairs[1][2]].o>> : vi \in SeqToSet(idle_left)}
       \cup rb_asked(Tail(pairs), Remove(idle_left, pairs[1][1]))

assign_idle_to_rejected(idle, hot) ==
  rb_pairing(StableSort(hot, LAMBDA rid : requests[rid].t_request), idle)

\* lines 436-442: the idle vehicles and the hot requests of this tick
idle_vehicles_all == [i \in 1..Len(vehicles) |-> i]

idle_vehicles == SelectSeq([i \in 1..Len(vehicles) |-> i],
                           LAMBDA i : Len(vehicles[i].schedule) = 0)

\* sorted by (retries, t_request): t_request < TKeyBase for every request
TKeyBase == 1 + requests[total_reqs].t_request

hot_requests_with_rejected ==
  LET pool == pending \o rejected
      hot  == SelectSeq(pool, LAMBDA rid :
                          max_retries >= 1 /\ Get(retries, rid, 0) >= max_retries - 1)
  IN IF Len(hot) > 0 THEN hot ELSE pool

hot_requests ==
  LET hot == SelectSeq(pending, LAMBDA rid :
                         max_retries >= 1 /\ Get(retries, rid, 0) >= max_retries - 1)
      pend_sorted == StableSort(pending, LAMBDA rid :
                         Get(retries, rid, 0) * TKeyBase + requests[rid].t_request)
  IN IF Len(hot) > 0 THEN hot
     ELSE SubSeq(pend_sorted, Len(pend_sorted) - Min2(20, Len(pend_sorted)) + 1,
                 Len(pend_sorted))

(* ---------------- run_batches ---------------- *)
RECURSIVE SumGaps(_, _)
SumGaps(gaps, r) == IF r <= 1 THEN 0 ELSE gaps[r] + SumGaps(gaps, r - 1)

\* a time-sorted input list of n requests whose gaps are drawn from `gaps`;
\* the street is symmetric, so the first request is taken to travel east
RequestLists(n, gapset) ==
  { [r \in 1..n |-> [o |-> od[r][1], d |-> od[r][2], t_request |-> SumGaps(g, r)]] :
      od \in {f \in [1..n -> {p \in Grid \X Grid : p[1] # p[2]}] : f[1][1] < f[1][2]},
      g \in [2..n -> gapset] }

\* a fleet of nv idle vehicles standing at stops
Fleets(nv) ==
  { [i \in 1..nv |-> [lon |-> lons[i], schedule |-> <<>>, onboard_reqs |-> <<>>,
                      t_avail |-> 0]] : lons \in [1..nv -> Grid] }

\* the locals of run_batches before the main loop
InitLocals ==
  /\ current = requests[1].t_request
  /\ next_idx = 0
  /\ pending = <<>>
  /\ pending_state = <<>>
  /\ retries = <<>>
  /\ attempts = <<>>
  /\ allowed_late = <<>>
  /\ served = <<>>
  /\ rejected = <<>>
  /\ events = <<>>
  /\ reroutes = <<>>
  /\ assigned_ids = {}
  /\ todo = <<>>
  /\ rb_pairs = <<>>
  /\ served_now = {}
  /\ lastApply = NoApply
  /\ refused = {}
  /\ lap_io = NoLap
  /\ ins_io = NoIns
  /\ eff_io = NoEff

\* the state when the main loop is first reached: current = requests[0].t_request.
\* Two families of inputs: NumReq requests and a fleet of 0..fleet_size vehicles;
\* vehicle_capacity + 1 requests (one more than a vehicle can carry at once) that
\* arrive together or a tick apart, and one vehicle that stands at the first origin.
Init ==
  /\ \/ /\ requests \in RequestLists(NumReq, Gaps)
        /\ \E nv \in 0..fleet_size : vehicles \in Fleets(nv)
     \/ /\ requests \in RequestLists(vehicle_capacity + 1, PoolGaps)
        /\ vehicles \in {f \in Fleets(1) : f[1].lon = requests[1].o}
  /\ InitLocals
  /\ osrm = NoOsrm
  /\ pc = "loop"

\* the same inputs, with at most one t_request replaced by NaN or by a value that
\* is no number
RawRequestLists(n, gapset) ==
  RequestLists(n, gapset) \cup
  { [L EXCEPT ![i].t_request = b] :
      L \in RequestLists(n, gapset), i \in 1..n, b \in {NaN, NonNumeric} }

\* run_batches as it is entered with any list of Request objects: line 137 has run
RawInit ==
  /\ \/ /\ requests \in RawRequestLists(NumReq, Gaps)
        /\ \E nv \in 0..fleet_size : vehicles \in Fleets(nv)
     \/ /\ requests \in RawRequestLists(vehicle_capacity + 1, PoolGaps)
        /\ vehicles \in {f \in Fleets(1) : f[1].lon = requests[1].o}
  /\ InitLocals
  /\ osrm = NoOsrm
  /\ pc = "start"

\* lines 138-149: int(t_end + int(tail_window_sec)) raises ValueError on NaN and
\* TypeError on a value that is no number
Setup ==
  /\ pc = "start"
  /\ pc' = IF bad_t_request(t_end) THEN "raised" ELSE "loop"
  /\ UNCHANGED <<requests, eff_io, ins_io, lap_io, osrm, vehicles, current, next_idx, pending, pending_state, retries,
                 attempts, allowed_late, served, rejected, events, reroutes,
                 assigned_ids, refused, todo, rb_pairs, served_now, lastApply>>

\* "current <= t_end" raises TypeError when current is not a number
LoopRaises == current = NonNumeric
LoopCond_ignores_pending == le(current, t_end) \/ next_idx < total_reqs

LoopCond == le(current, t_end) \/ Len(pending) > 0 \/ next_idx < total_reqs

\* (1) admission: every next request with t_request < current + batch_seconds;
\* the comparison raises TypeError on a t_request that is not a number
Admit ==
  /\ pc = "loop"
  /\ ~LoopRaises
  /\ LoopCond
  /\ current <= MaxTime
  /\ LET cmp_raises(i) == requests[i].t_request = NonNumeric
         due(i) == /\ ~cmp_raises(i)
                   /\ lt(requests[i].t_request, plus(current, batch_seconds))
         new_next == CHOOSE k \in next_idx..total_reqs :
                       /\ \A i \in (next_idx + 1)..k : due(i)
                       /\ k < total_reqs => ~due(k + 1)
         new_ids == (next_idx + 1)..new_next
         pending2 == pending \o [i \in 1..(new_next - next_idx) |-> next_idx + i]
     IN /\ next_idx' = new_next
        /\ pending' = pending2
        /\ pending_state' =
             [rid \in (DOMAIN pending_state) \cup new_ids |->
                IF rid \in new_ids
                THEN [retry_idx |-> 0, late_eff |-> pickup_late_sec,
                      deadline |-> requests[rid].t_request + pickup_late_sec]
                ELSE pending_state[rid]]
        /\ retries' = [rid \in (DOMAIN retries) \cup new_ids |->
                         IF rid \in new_ids THEN 0 ELSE retries[rid]]
        /\ attempts' = [rid \in (DOMAIN attempts) \cup new_ids |->
                          IF rid \in new_ids
                          THEN [attempt |-> 1, final_status |-> "pending"]
                          ELSE attempts[rid]]
        /\ pc' = IF new_next < total_reqs /\ cmp_raises(new_next + 1) THEN "raised"
                 ELSE IF Len(pending2) = 0 /\ new_next >= total_reqs /\ lt(t_end, current)
                 THEN "tail" ELSE "lap"
  /\ UNCHANGED <<requests, eff_io, ins_io, lap_io, osrm, vehicles, current, allowed_late, served, rejected, events,
                 reroutes, assigned_ids, refused, todo, rb_pairs, served_now, lastApply>>

\* the loop is left when its condition is false, or by the exception it raises
LoopExit ==
  /\ pc = "loop"
  /\ LoopRaises \/ ~LoopCond
  /\ pc' = IF LoopRaises THEN "raised" ELSE "tail"
  /\ UNCHANGED <<requests, eff_io, ins_io, lap_io, osrm, vehicles, current, next_idx, pending, pending_state, retries,
                 attempts, allowed_late, served, rejected, events, reroutes,
                 assigned_ids, refused, todo, rb_pairs, served_now, lastApply>>

\* (2)-(4) cost matrix, insertion evaluation of every (vehicle, pending request), LAP
pick_matrix ==
  ListOf(Len(vehicles), LAMBDA i :
    ListOf(Len(pending), LAMBDA j :
      insertion_or_none(pending[j], i,
          eff_limits(Get(pending_state, pending[j], [retry_idx |-> 0]).retry_idx),
          current)))

\* the OD keys the evaluation of this tick asks the oracle for
evaluate_asked ==
  {<<requests[rid].o, requests[rid].d>> :
     rid \in {x \in SeqToSet(pending) :
                \E i \in 1..Len(vehicles) :
                  asks_od(x, i, eff_limits(Get(pending_state, x,
                                               [retry_idx |-> 0]).retry_idx), current)}}

Evaluate ==
  /\ pc = "lap"
  /\ LET pick == pick_matrix
         cost == ListOf(Len(vehicles), LAMBDA i :
                   ListOf(Len(pending), LAMBDA j : pick[i][j].cost_sec))
     IN \E pairs \in solve_lap(cost, Len(vehicles), Len(pending)) :
          todo' = [k \in 1..Len(pairs) |-> pick[pairs[k][1]][pairs[k][2]]]
  /\ assigned_ids' = {}
  /\ refused' = {}
  /\ osrm' = cache_after(evaluate_asked)
  /\ pc' = "commit"
  /\ UNCHANGED <<requests, eff_io, ins_io, lap_io, vehicles, current, next_idx, pending, pending_state, retries,
                 attempts, allowed_late, served, rejected, events, reroutes,
                 rb_pairs, served_now, lastApply>>

Snapshot(sched) == sched
Reroute(t, vi, before, after) == [t |-> t, veh_id |-> vi, before |-> before, after |-> after]

\* (5) one LAP pair: _sched_apply, and on success ASSIGN
CommitPair ==
  /\ pc = "commit"
  /\ Len(todo) > 0
  /\ LET dec   == Head(todo)
         vi    == dec.veh_id
         rid   == dec.req_id
         k_try == Get(pending_state, rid, [retry_idx |-> 0]).retry_idx
         late_eff == eff_limits(k_try).pickup_late_sec
         ok    == sched_apply(vehicles[vi], dec, current, allowed_late, late_eff)
     IN /\ lastApply' = ApplyRecord(vi, dec, current, ok)
        /\ refused' = IF ok THEN refused ELSE refused \cup {rid}
        /\ IF ok
           THEN /\ vehicles' = [vehicles EXCEPT ![vi].schedule = dec.new_schedule]
                /\ reroutes' = Append(reroutes,
                                 Reroute(current, vi, vehicles[vi].schedule, dec.new_schedule))
                /\ allowed_late' = fix_allowed_late(allowed_late, rid, late_eff)
                /\ events' = Append(events, Ev("ASSIGN", vi, rid, current, k_try + 1, ""))
                /\ served' = Append(served, rid)
                /\ attempts' = Put(attempts, rid,
                                   [attempt |-> k_try + 1, final_status |-> "served"])
                /\ assigned_ids' = assigned_ids \cup {rid}
           ELSE UNCHANGED <<vehicles, reroutes, allowed_late, events, served, attempts,
                            assigned_ids>>
  /\ todo' = Tail(todo)
  /\ UNCHANGED <<requests, eff_io, ins_io, lap_io, osrm, current, next_idx, pending, pending_state, retries, rejected,
                 rb_pairs, served_now, pc>>

\* the commit loop as a function of the list of LAP pairs: what it leaves in the
\* vehicles, allowed_late, served and reroutes
commit_one(dec, st) ==
  LET vi    == dec.veh_id
      rid   == dec.req_id
      k_try == Get(pending_state, rid, [retry_idx |-> 0]).retry_idx
      late_eff == eff_limits(k_try).pickup_late_sec
  IN IF sched_apply(st.vehicles[vi], dec, current, st.allowed_late, late_eff)
     THEN [ vehicles |-> [st.vehicles EXCEPT ![vi].schedule = dec.new_schedule],
            allowed_late |-> fix_allowed_late(st.allowed_late, rid, late_eff),
            served |-> Append(st.served, rid),
            reroutes |-> Append(st.reroutes,
                           Reroute(current, vi, st.vehicles[vi].schedule, dec.new_schedule)) ]
     ELSE st

RECURSIVE commit_all(_, _)
commit_all(decs, st) ==
  IF Len(decs) = 0 THEN st ELSE commit_all(Tail(decs), commit_one(Head(decs), st))

commit_state ==
  [vehicles |-> vehicles, allowed_late |-> allowed_late, served |-> served,
   reroutes |-> reroutes]

(* (6) the retry / timeout pass over pending *)
\* what the pass does with one pending request
retry_outcome_no_skip(rid) ==
  IF current >= pending_state[rid].deadline
  THEN (IF pending_state[rid].retry_idx < max_retries THEN "retry" ELSE "reject")
  ELSE "keep"

retry_outcome_no_reject(rid) ==
  IF rid \in assigned_ids THEN "assigned"
  ELSE IF current >= pending_state[rid].deadline
       THEN (IF pending_state[rid].retry_idx < max_retries THEN "retry" ELSE "keep")
       ELSE "keep"

retry_outcome_eager(rid) ==
  IF rid \in assigned_ids THEN "assigned"
  ELSE IF current >= pending_state[rid].deadline THEN "reject" ELSE "keep"

retry_outcome_drop_refused(rid) ==
  IF rid \in assigned_ids \cup refused THEN "assigned"
  ELSE IF current >= pending_state[rid].deadline
       THEN (IF pending_state[rid].retry_idx < max_retries THEN "retry" ELSE "reject")
       ELSE "keep"

retry_outcome_keeps_assigned(rid) ==
  IF rid \in assigned_ids THEN "keep"
  ELSE IF bad_t_request(requests[rid].t_request) THEN "bad"
  ELSE IF current >= pending_state[rid].deadline
       THEN (IF pending_state[rid].retry_idx < max_retries THEN "retry" ELSE "reject")
       ELSE "keep"

retry_outcome(rid) ==
  IF rid \in assigned_ids THEN "assigned"
  ELSE IF bad_t_request(requests[rid].t_request) THEN "bad"
  ELSE IF current >= pending_state[rid].deadline
       THEN (IF pending_state[rid].retry_idx < max_retries THEN "retry" ELSE "reject")
       ELSE "keep"

RetryState_skip_level(rid) ==
  LET idx  == pending_state[rid].retry_idx + 2
      late == pickup_late_sec + Min2(wait_bonus_per_retry_sec * idx, wait_bonus_cap_sec)
  IN [retry_idx |-> idx, late_eff |-> late,
      deadline |-> requests[rid].t_request + late]

RetryState_no_bonus(rid) ==
  [retry_idx |-> pending_state[rid].retry_idx + 1, late_eff |-> pickup_late_sec,
   deadline |-> requests[rid].t_request + pickup_late_sec]

RetryState(rid) ==
  LET idx  == pending_state[rid].retry_idx + 1
      late == pickup_late_sec + Min2(wait_bonus_per_retry_sec * idx, wait_bonus_cap_sec)
  IN [retry_idx |-> idx, late_eff |-> late,
      deadline |-> requests[rid].t_request + late]

RetryPass ==
  /\ pc = "commit"
  /\ Len(todo) = 0
  /\ LET out(rid) == retry_outcome(rid)
         rej  == SelectSeq(pending, LAMBDA rid : out(rid) \in {"reject", "bad"})
         retr == {rid \in SeqToSet(pending) : out(rid) = "retry"}
     IN /\ pending' = SelectSeq(pending, LAMBDA rid : out(rid) \in {"retry", "keep"})
        /\ pending_state' = [rid \in DOMAIN pending_state |->
                               IF rid \in retr THEN RetryState(rid) ELSE pending_state[rid]]
        /\ retries' = [rid \in DOMAIN retries |->
                         IF rid \in retr THEN RetryState(rid).retry_idx ELSE retries[rid]]
        /\ attempts' = [rid \in DOMAIN attempts |->
                          IF rid \in retr
                          THEN [attempts[rid] EXCEPT !.attempt = RetryState(rid).retry_idx + 1]
                          ELSE IF rid \in SeqToSet(rej)
                          THEN [attempt |-> pending_state[rid].retry_idx + 1,
                                final_status |-> "rejected"]
                          ELSE attempts[rid]]
        /\ rejected' = rejected \o rej
        /\ events' = events \o [i \in 1..Len(rej) |->
                                  Ev("REJECT", 0, rej[i], current, 0,
                                     IF out(rej[i]) = "bad" THEN "bad_t_request"
                                     ELSE "pickup_window_timeout")]
  /\ pc' = "rebalance"
  /\ UNCHANGED <<requests, eff_io, ins_io, lap_io, osrm, vehicles, current, next_idx, allowed_late, served, reroutes,
                 assigned_ids, refused, todo, rb_pairs, served_now, lastApply>>

(* (7) reactive rebalance: pairing, then one immediate assignment per pair *)
RebalancePlan ==
  /\ pc = "rebalance"
  /\ IF enable_rebalance /\ Len(idle_vehicles) > 0 /\ Len(pending) > 0
     THEN \E pairs \in assign_idle_to_rejected(idle_vehicles, hot_requests) :
            /\ rb_pairs' = pairs
            /\ osrm' = cache_after(rb_asked(pairs, idle_vehicles))
            /\ pc' = IF Len(pairs) > 0 THEN "rb_assign" ELSE "advance"
     ELSE /\ rb_pairs' = <<>>
          /\ osrm' = osrm
          /\ pc' = "advance"
  /\ served_now' = {}
  /\ UNCHANGED <<requests, eff_io, ins_io, lap_io, vehicles, current, next_idx, pending, pending_state, retries,
                 attempts, allowed_late, served, rejected, events, reroutes,
                 assigned_ids, refused, todo, lastApply>>

\* _try_immediate_assign for the head pair, then lines 453-457, and after the last
\* pair the removal of served_now from pending
RebalancePair ==
  /\ pc = "rb_assign"
  /\ Len(rb_pairs) > 0
  /\ LET vi    == rb_pairs[1][1]
         rid   == rb_pairs[1][2]
         k_try == Get(retries, rid, 0)
         P_eff == eff_limits(k_try)
         dec   == insertion_or_none(rid, vi, P_eff, current)
         late_eff == P_eff.pickup_late_sec
         ok    == /\ dec # NoDecision
                  /\ sched_apply(vehicles[vi], dec, current, allowed_late, late_eff)
         now2  == IF ok THEN served_now \cup {rid} ELSE served_now
     IN /\ lastApply' = IF dec # NoDecision THEN ApplyRecord(vi, dec, current, ok)
                        ELSE lastApply
        /\ IF ok
           THEN /\ vehicles' = [vehicles EXCEPT ![vi].schedule = dec.new_schedule]
                /\ reroutes' = Append(reroutes,
                                 Reroute(current, vi, vehicles[vi].schedule, dec.new_schedule))
                /\ allowed_late' = fix_allowed_late(allowed_late, rid, late_eff)
                /\ events' = Append(events, Ev("REBALANCE_ASSIGN", vi, rid, current, 0, ""))
                /\ served' = Append(served, rid)
                /\ attempts' = Put(attempts, rid,
                                   [attempt |-> k_try + 1, final_status |-> "served"])
           ELSE UNCHANGED <<vehicles, reroutes, allowed_late, events, served, attempts>>
        /\ served_now' = now2
        /\ osrm' = cache_after(IF asks_od(rid, vi, P_eff, current)
                               THEN {<<requests[rid].o, requests[rid].d>>} ELSE {})
        /\ rb_pairs' = Tail(rb_pairs)
        /\ IF Len(rb_pairs) = 1
           THEN /\ pending' = SelectSeq(pending, LAMBDA x : x \notin now2)
                /\ pc' = "advance"
           ELSE UNCHANGED <<pending, pc>>
  /\ UNCHANGED <<requests, eff_io, ins_io, lap_io, current, next_idx, pending_state, retries, rejected,
                 assigned_ids, refused, todo>>

\* (8) advance_vehicles over one tick, then the clock step; the track point of a
\* vehicle takes int(current + batch_seconds), which raises ValueError on NaN
Advance ==
  /\ pc = "advance"
  /\ LET adv == advance_vehicles(vehicles, batch_seconds, current)
     IN /\ vehicles' = adv.vehicles
        /\ events' = events \o adv.events
        /\ osrm' = cache_after(adv.asked)
        /\ IF adv.raised \/ (current = NaN /\ Len(vehicles) > 0)
           THEN current' = current /\ pc' = "raised"
           ELSE current' = plus(current, batch_seconds) /\ pc' = "loop"
  /\ UNCHANGED <<requests, eff_io, ins_io, lap_io, next_idx, pending, pending_state, retries, attempts,
                 allowed_late, served, rejected, reroutes, assigned_ids, refused, todo,
                 rb_pairs, served_now, lastApply>>

\* tail flush: advance while a schedule is left and the drop deadline is not reached
TailFlush ==
  /\ pc = "tail"
  /\ any_schedule_left
  /\ current < drop_deadline_abs
  /\ current <= MaxTime
  /\ LET adv == advance_vehicles(vehicles, batch_seconds, current)
     IN /\ vehicles' = adv.vehicles
        /\ events' = events \o adv.events
        /\ osrm' = cache_after(adv.asked)
        /\ IF adv.raised
           THEN current' = current /\ pc' = "raised"
           ELSE current' = current + batch_seconds /\ pc' = pc
  /\ UNCHANGED <<requests, eff_io, ins_io, lap_io, next_idx, pending, pending_state, retries, attempts,
                 allowed_late, served, rejected, reroutes, assigned_ids, refused, todo,
                 rb_pairs, served_now, lastApply>>

\* end of run: what is still pending is rejected with reason end_flush
EndFlush ==
  /\ pc = "tail"
  /\ ~(any_schedule_left /\ current < drop_deadline_abs)
  /\ rejected' = rejected \o pending
  /\ attempts' = [rid \in DOMAIN attempts |->
                    IF rid \in SeqToSet(pending)
                    THEN [attempt |-> Get(pending_state, rid,
                                          [retry_idx |-> Get(retries, rid, 0)]).retry_idx + 1,
                          final_status |-> "rejected"]
                    ELSE attempts[rid]]
  /\ events' = events \o [i \in 1..Len(pending) |->
                            Ev("REJECT", 0, pending[i], current, 0, "end_flush")]
  /\ pc' = "done"
  /\ UNCHANGED <<requests, eff_io, ins_io, lap_io, osrm, vehicles, current, next_idx, pending, pending_state, retries,
                 allowed_late, served, reroutes, assigned_ids, refused, todo, rb_pairs,
                 served_now, lastApply>>

Next ==
  \/ Admit
  \/ LoopExit
  \/ Evaluate
  \/ CommitPair
  \/ RetryPass
  \/ RebalancePlan
  \/ RebalancePair
  \/ Advance
  \/ TailFlush
  \/ EndFlush

Spec == Init /\ [][Next]_vars

\* run_batches on inputs that may carry a malformed t_request
RawNext ==
  \/ Setup
  \/ Admit
  \/ LoopExit
  \/ Evaluate
  \/ CommitPair
  \/ RetryPass
  \/ RebalancePlan
  \/ RebalancePair
  \/ Advance
  \/ TailFlush
  \/ EndFlush

RawSpec == RawInit /\ [][RawNext]_vars

(* ---------------- run_batches with the routing oracle in use ---------------- *)
\* use_osrm = True and a server that answers at first
OsrmInit ==
  /\ \/ /\ requests \in RequestLists(NumReq, Gaps)
        /\ \E nv \in 0..fleet_size : vehicles \in Fleets(nv)
     \/ /\ requests \in RequestLists(vehicle_capacity + 1, PoolGaps)
        /\ vehicles \in {f \in Fleets(1) : f[1].lon = requests[1].o}
  /\ InitLocals
  /\ osrm = [use |-> TRUE, up |-> TRUE, cache |-> {}]
  /\ pc = "loop"

\* the environment: from some moment on the server does not answer any more
OracleFails ==
  /\ osrm.use /\ osrm.up
  /\ pc \notin {"done", "raised"}
  /\ osrm' = [osrm EXCEPT !.up = FALSE]
  /\ UNCHANGED <<requests, eff_io, ins_io, lap_io, vehicles, current, next_idx, pending, pending_state,
                 retries, attempts, allowed_late, served, rejected, events, reroutes,
                 assigned_ids, refused, todo, rb_pairs, served_now, lastApply, pc>>

OsrmNext ==
  \/ OracleFails
  \/ Admit
  \/ LoopExit
  \/ Evaluate
  \/ CommitPair
  \/ RetryPass
  \/ RebalancePlan
  \/ RebalancePair
  \/ Advance
  \/ TailFlush
  \/ EndFlush

OsrmSpec == OsrmInit /\ [][OsrmNext]_vars

(* ---------------- solve_lap as a function of its matrix ---------------- *)
\* cost matrices of up to LapDim x LapDim cells with entries from CostVals
CostMatrices ==
  UNION {[1..m -> [1..n -> CostVals]] : m \in 1..LapDim, n \in 1..LapDim}

LapInit ==
  /\ \E c \in CostMatrices :
       lap_io = [cost |-> c, m |-> Len(c), n |-> Len(c[1]), branch |-> "", pairs |-> <<>>]
  /\ requests = <<>>
  /\ vehicles = <<>>
  /\ current = 0
  /\ next_idx = 0
  /\ pending = <<>>
  /\ pending_state = <<>>
  /\ retries = <<>>
  /\ attempts = <<>>
  /\ allowed_late = <<>>
  /\ served = <<>>
  /\ rejected = <<>>
  /\ events = <<>>
  /\ reroutes = <<>>
  /\ assigned_ids = {}
  /\ todo = <<>>
  /\ rb_pairs = <<>>
  /\ served_now = {}
  /\ lastApply = NoApply
  /\ refused = {}
  /\ osrm = NoOsrm
  /\ ins_io = NoIns
  /\ eff_io = NoEff
  /\ pc = "solve_lap"

LapFrame ==
  UNCHANGED <<requests, eff_io, ins_io, osrm, vehicles, current, next_idx, pending, pending_state, retries,
              attempts, allowed_late, served, rejected, events, reroutes,
              assigned_ids, refused, todo, rb_pairs, served_now, lastApply>>

\* lines 5-15: linear_sum_assignment, cells at or above the cut dropped
LapScipy ==
  /\ pc = "solve_lap"
  /\ \E ps \in lap_optimal(lap_io.cost, lap_io.m, lap_io.n) :
       lap_io' = [lap_io EXCEPT !.branch = "scipy", !.pairs = ps]
  /\ pc' = "returned"
  /\ LapFrame

\* lines 16-29: the import fails and the greedy fallback runs
LapFallback ==
  /\ pc = "solve_lap"
  /\ lap_io' = [lap_io EXCEPT !.branch = "fallback",
                              !.pairs = lap_greedy(lap_io.cost, lap_io.m, lap_io.n)]
  /\ pc' = "returned"
  /\ LapFrame

LapNext ==
  \/ LapScipy
  \/ LapFallback

LapSpec == LapInit /\ [][LapNext]_vars

(* ---------------- best_insertion_for_vehicle as a function ---------------- *)
\* two requests taken earlier, the new one, and one that is still to come
InsRid == 3
InsWindows == {NoWindow, 0, 1, 2}
InsClock == {0, 4}
InsRequestLists ==
  { << [o |-> a[1], d |-> a[2], t_request |-> 0],
       [o |-> b[1], d |-> b[2], t_request |-> 0],
       [o |-> c[1], d |-> c[2], t_request |-> t],
       [o |-> 0, d |-> 4, t_request |-> t + batch_seconds] >> :
      a \in {<<0, 2>>, <<2, 4>>, <<4, 0>>}, b \in {<<4, 2>>},
      c \in {p \in Grid \X Grid : p[1] # p[2]}, t \in InsClock }

\* the schedules of at most len stops a vehicle may hold for the earlier requests:
\* no stop twice, a pickup only with its dropoff behind it
InsSchedules(len) ==
  LET stops == {Stop("pickup", rid, requests[rid].o) : rid \in 1..2}
               \cup {Stop("dropoff", rid, requests[rid].d) : rid \in 1..2}
  IN { sc \in UNION {[1..l -> stops] : l \in 0..len} :
         /\ \A i, j \in 1..Len(sc) : i # j => sc[i] # sc[j]
         /\ \A i \in 1..Len(sc) :
              sc[i].kind = "pickup" =>
                \E j \in (i + 1)..Len(sc) :
                  sc[j].kind = "dropoff" /\ sc[j].req_id = sc[i].req_id }

\* a vehicle at a stop of the street with such a schedule; the requests whose
\* dropoff it holds without a pickup are on board
InsVehicles ==
  { << [lon |-> x, schedule |-> sc,
        onboard_reqs |-> SelectSeq(<<1, 2>>, LAMBDA rid :
                            /\ IndexOf(sc, "dropoff", rid) > 0
                            /\ IndexOf(sc, "pickup", rid) = 0),
        t_avail |-> 0] >> : x \in Grid, sc \in InsSchedules(InsLen) }

InsInit ==
  /\ requests \in InsRequestLists
  /\ vehicles \in InsVehicles
  /\ current \in InsClock
  /\ next_idx = 0
  /\ pending = <<>>
  /\ pending_state = <<>>
  /\ retries = <<>>
  /\ attempts = <<>>
  /\ allowed_late = <<>>
  /\ served = <<>>
  /\ rejected = <<>>
  /\ events = <<>>
  /\ reroutes = <<>>
  /\ assigned_ids = {}
  /\ todo = <<>>
  /\ rb_pairs = <<>>
  /\ served_now = {}
  /\ lastApply = NoApply
  /\ refused = {}
  /\ lap_io = NoLap
  /\ osrm = NoOsrm
  /\ ins_io = NoIns
  /\ eff_io = NoEff
  /\ pc = "best_insertion"

\* the parameters of a call: P of the first attempt with the two windows set
InsParams(k, lam) ==
  [eff_limits(0) EXCEPT !.insert_pick_window = k, !.insert_drop_window = lam]

\* one call for the new request: the positions tried, in order, each with the
\* answer of evaluate_feasibility_and_cost for its trial, and the decision returned
InsCall ==
  /\ pc = "best_insertion"
  /\ \E k \in InsWindows, lam \in InsWindows :
       LET P   == InsParams(k, lam)
           rid == InsRid
           pos == scan_positions(Len(vehicles[1].schedule), P)
       IN ins_io' =
            [ pick_window |-> k, drop_window |-> lam,
              trials |-> [x \in 1..Len(pos) |->
                            [ i |-> pos[x][1], j |-> pos[x][2],
                              ev |-> evaluate_feasibility_and_cost(vehicles[1],
                                       Trial(vehicles[1].schedule, rid, pos[x][1], pos[x][2]),
                                       rid, P, current) ]],
              dec |-> best_insertion_for_vehicle(rid, 1, P, current) ]
  /\ pc' = "returned"
  /\ UNCHANGED <<requests, eff_io, lap_io, osrm, vehicles, current, next_idx, pending,
                 pending_state, retries, attempts, allowed_late, served, rejected, events, reroutes,
                 assigned_ids, refused, todo, rb_pairs, served_now, lastApply>>

InsNext == InsCall

InsSpec == InsInit /\ [][InsNext]_vars

(* ---------------- assign_idle_to_rejected as a function ---------------- *)
RbIdle == 4      \* idle vehicles handed to the function, at most
\* three waiting requests; the second and third arrive together
RbRequestLists ==
  { << [o |-> a, d |-> (a + 2) % 6, t_request |-> 0],
       [o |-> b, d |-> (b + 2) % 6, t_request |-> g],
       [o |-> 2, d |-> 4, t_request |-> g] >> : a \in Grid, b \in Grid, g \in {0, 2} }
\* the hot lists handed over: in the order of pending, or in the order of the
\* (retries, t_request) sort of engine.py:441-442
RbHotLists == {<<1, 2, 3>>, <<3, 1, 2>>, <<2>>, <<3, 1>>}

RbInit ==
  /\ requests \in RbRequestLists
  /\ vehicles \in Fleets(1) \cup Fleets(RbIdle)
  /\ pending \in RbHotLists
  /\ current = 0
  /\ next_idx = total_reqs
  /\ pending_state = <<>>
  /\ retries = <<>>
  /\ attempts = <<>>
  /\ allowed_late = <<>>
  /\ served = <<>>
  /\ rejected = <<>>
  /\ events = <<>>
  /\ reroutes = <<>>
  /\ assigned_ids = {}
  /\ todo = <<>>
  /\ rb_pairs = <<>>
  /\ served_now = {}
  /\ lastApply = NoApply
  /\ refused = {}
  /\ lap_io = NoLap
  /\ osrm = NoOsrm
  /\ ins_io = NoIns
  /\ eff_io = NoEff
  /\ pc = "assign_idle"

\* one call with the idle vehicles and the hot list; rb_pairs holds the answer
RbCall ==
  /\ pc = "assign_idle"
  /\ \E pairs \in assign_idle_to_rejected(idle_vehicles, pending) : rb_pairs' = pairs
  /\ pc' = "returned"
  /\ UNCHANGED <<requests, eff_io, ins_io, lap_io, osrm, vehicles, current, next_idx, pending,
                 pending_state, retries, attempts, allowed_late, served, rejected, events,
                 reroutes, assigned_ids, refused, todo, served_now, lastApply>>

RbNext == RbCall

RbSpec == RbInit /\ [][RbNext]_vars

(* ---------------- _eff_limits as a function ---------------- *)
\* parameter sets with non-negative bases, bonuses and caps (ratios in quarters)
EffParamSets ==
  { [ServiceParams EXCEPT !.detour_ratio_max = bd, !.detour_bonus_per_retry = sd,
                          !.detour_bonus_cap = cd, !.pickup_late_sec = bl,
                          !.wait_bonus_per_retry_sec = bp, !.wait_bonus_cap_sec = cb,
                          !.max_retries = mr] :
      bd \in {4, 8}, sd \in {0, 1, 4}, cd \in {0, 4, 8, 12},
      bl \in {0, 5}, bp \in {0, 3}, cb \in {0, 3, 7}, mr \in 1..EffMaxRetries }

EffInit ==
  /\ \E p \in EffParamSets :
       \E a \in 0..p.max_retries, b \in 0..p.max_retries :
         /\ a < b
         /\ eff_io = [P |-> p, k |-> a, k2 |-> b, lo |-> p, hi |-> p]
  /\ requests = <<>>
  /\ vehicles = <<>>
  /\ current = 0
  /\ next_idx = 0
  /\ pending = <<>>
  /\ pending_state = <<>>
  /\ retries = <<>>
  /\ attempts = <<>>
  /\ allowed_late = <<>>
  /\ served = <<>>
  /\ rejected = <<>>
  /\ events = <<>>
  /\ reroutes = <<>>
  /\ assigned_ids = {}
  /\ todo = <<>>
  /\ rb_pairs = <<>>
  /\ served_now = {}
  /\ lastApply = NoApply
  /\ refused = {}
  /\ lap_io = NoLap
  /\ osrm = NoOsrm
  /\ ins_io = NoIns
  /\ pc = "eff_limits"

\* _eff_limits(P, k) and _eff_limits(P, k2) for retry indices k < k2 <= max_retries
EffCall ==
  /\ pc = "eff_limits"
  /\ eff_io' = [eff_io EXCEPT !.lo = eff_limits_of(eff_io.P, eff_io.k),
                              !.hi = eff_limits_of(eff_io.P, eff_io.k2)]
  /\ pc' = "returned"
  /\ UNCHANGED <<requests, ins_io, lap_io, osrm, vehicles, current, next_idx, pending,
                 pending_state, retries, attempts, allowed_late, served, rejected, events,
                 reroutes, assigned_ids, refused, todo, rb_pairs, served_now, lastApply>>

EffNext == EffCall

EffSpec == EffInit /\ [][EffNext]_vars

\* the states in which run_batches has a next step to take: ENABLED <<Next>>_vars,
\* written out position by position
NextEnabled ==
  \/ pc = "loop" /\ (LoopCond => current <= MaxTime)
  \/ pc \in {"lap", "commit", "rebalance", "advance"}
  \/ pc = "rb_assign" /\ Len(rb_pairs) > 0
  \/ pc = "tail" /\ ((any_schedule_left /\ current < drop_deadline_abs)
                        => current <= MaxTime)

\* run_batches is one sequential function: it takes its next step whenever it has
\* one.  This is weak fairness of Next, with the enabling condition written out.
FairSpec == Init /\ [][Next]_vars /\ ([]<>(~NextEnabled) \/ []<><<Next>>_vars)

(* ======================= properties ======================= *)
NoDup(s) == \A i, j \in 1..Len(s) : i # j => s[i] # s[j]
Vehs == 1..Len(vehicles)
StopsOf(vi, kind, rid) ==
  {i \in 1..Len(vehicles[vi].schedule) :
     vehicles[vi].schedule[i].kind = kind /\ vehicles[vi].schedule[i].req_id = rid}
\* the arrival times predicted for a vehicle's schedule from its place, at the clock
Eta(vi) == [i \in 1..Len(vehicles[vi].schedule) |->
              current + simulate_schedule(vehicles[vi].lon, vehicles[vi].schedule).arrivals[i]]

\* C1: served and rejected are disjoint and hold no id twice; when run_batches
\* returns every admitted request is in exactly one of them and its attempts entry
\* has the matching final_status.
C1_ServedRejected ==
  /\ SeqToSet(served) \cap SeqToSet(rejected) = {}
  /\ NoDup(served)
  /\ NoDup(rejected)
  /\ pc = "done" =>
       \A rid \in 1..next_idx :
         /\ (rid \in SeqToSet(served)) # (rid \in SeqToSet(rejected))
         /\ rid \in DOMAIN attempts
         /\ attempts[rid].final_status =
              (IF rid \in SeqToSet(served) THEN "served" ELSE "rejected")

C1_Witness ==
  /\ pc = "done"
  /\ next_idx = total_reqs
  /\ Len(served) > 0
  /\ Len(rejected) > 0

\* C2: every onboard request of every vehicle has exactly one dropoff stop and no
\* pickup stop in that vehicle's schedule.
C2_OnboardDrop ==
  \A vi \in Vehs : \A rid \in SeqToSet(vehicles[vi].onboard_reqs) :
    /\ Cardinality(StopsOf(vi, "dropoff", rid)) = 1
    /\ StopsOf(vi, "pickup", rid) = {}

\* a commit has just written a schedule into a vehicle that carries a passenger
C2_Witness ==
  /\ lastApply.called /\ lastApply.ok
  /\ pc \in {"commit", "rb_assign", "advance"}
  /\ Len(vehicles[lastApply.veh_id].onboard_reqs) > 0
  /\ Len(vehicles[lastApply.veh_id].schedule) > Len(vehicles[lastApply.veh_id].onboard_reqs)

\* C3: no vehicle carries more than vehicle_capacity requests, and the walk over its
\* schedule from the present load (+1 at a pickup, -1 at a dropoff) stays in
\* [0, vehicle_capacity].
RECURSIVE PlainWalkIn(_, _, _)
PlainWalkIn(sched, i, load) ==
  IF i > Len(sched) THEN TRUE
  ELSE LET l2 == IF sched[i].kind = "pickup" THEN load + 1 ELSE load - 1
       IN l2 >= 0 /\ l2 <= vehicle_capacity /\ PlainWalkIn(sched, i + 1, l2)

C3_Capacity ==
  \A vi \in Vehs :
    /\ Len(vehicles[vi].onboard_reqs) <= vehicle_capacity
    /\ PlainWalkIn(vehicles[vi].schedule, 1, Len(vehicles[vi].onboard_reqs))

\* a full vehicle with a further request waiting
C3_Witness ==
  /\ Len(pending) > 0
  /\ \E vi \in Vehs : Len(vehicles[vi].onboard_reqs) = vehicle_capacity

\* C4: at every tick boundary and after every commit, the predicted arrival at each
\* pickup stop in a vehicle's schedule is at most that request's t_request plus the
\* lateness allowance recorded for it at assignment.
C4_PickupNotLate ==
  \A vi \in Vehs : \A i \in 1..Len(vehicles[vi].schedule) :
    vehicles[vi].schedule[i].kind = "pickup" =>
      LET rid == vehicles[vi].schedule[i].req_id
      IN /\ rid \in DOMAIN allowed_late
         /\ Eta(vi)[i] <= requests[rid].t_request + allowed_late[rid]

\* a tick boundary at which a vehicle is part of the way to a pickup
C4_Witness ==
  /\ pc = "loop"
  /\ \E vi \in Vehs :
       /\ Len(vehicles[vi].schedule) > 0
       /\ vehicles[vi].schedule[1].kind = "pickup"
       /\ vehicles[vi].t_avail > 0
       /\ vehicles[vi].lon # vehicles[vi].schedule[1].lon

\* C5: at every tick boundary and after every commit, the predicted arrival at each
\* pickup stop in a vehicle's schedule is not before that request's t_request.
C5_PickupNotEarly ==
  \A vi \in Vehs : \A i \in 1..Len(vehicles[vi].schedule) :
    vehicles[vi].schedule[i].kind = "pickup" =>
      Eta(vi)[i] >= requests[vehicles[vi].schedule[i].req_id].t_request

\* a request committed in the tick that admitted it ahead of its request time
C5_Witness ==
  /\ pc = "commit"
  /\ \E vi \in Vehs : \E i \in 1..Len(vehicles[vi].schedule) :
       /\ vehicles[vi].schedule[i].kind = "pickup"
       /\ requests[vehicles[vi].schedule[i].req_id].t_request > current

\* C6: when _sched_apply accepts a replacement schedule, no pickup that was in the
\* vehicle's schedule before has a later predicted arrival in the new schedule
\* (both predicted from the vehicle's place at the same clock).
ApplyEta(sched, kind, rid) ==
  LET i == IndexOf(sched, kind, rid)
  IN lastApply.now + simulate_schedule(lastApply.lon, sched).arrivals[i]

C6_NoRegression ==
  (lastApply.called /\ lastApply.ok) =>
    \A i \in 1..Len(lastApply.before) :
      lastApply.before[i].kind = "pickup" =>
        LET rid == lastApply.before[i].req_id
        IN /\ IndexOf(lastApply.after, "pickup", rid) > 0
           /\ ApplyEta(lastApply.after, "pickup", rid)
                <= ApplyEta(lastApply.before, "pickup", rid)

\* an accepted replacement of a schedule that held a pickup not yet made
C6_Witness ==
  /\ lastApply.called /\ lastApply.ok
  /\ \E i \in 1..Len(lastApply.before) : lastApply.before[i].kind = "pickup"

\* C7: in every committed schedule the predicted arrival at every dropoff stop, of
\* the newly inserted request and of the requests scheduled before it, is at most
\* drop_deadline_abs = t_end + tail_flush_max_sec.
C7_DropDeadline ==
  \A vi \in Vehs : \A i \in 1..Len(vehicles[vi].schedule) :
    vehicles[vi].schedule[i].kind = "dropoff" => Eta(vi)[i] <= drop_deadline_abs

\* C8: for every request whose pickup and dropoff are both in a committed schedule,
\* predicted ride time over max(1, direct time) is at most the detour limit that was
\* in effect at its assignment, also after later insertions into the same vehicle.
ride_time(vi, rid) ==
  LET pi == IndexOf(vehicles[vi].schedule, "pickup", rid)
      di == IndexOf(vehicles[vi].schedule, "dropoff", rid)
  IN Max2(0, Eta(vi)[di] - (Eta(vi)[pi] + service_time_sec))

C8_DetourKept ==
  \A vi \in Vehs : \A rid \in ReqIds :
    (/\ IndexOf(vehicles[vi].schedule, "pickup", rid) > 0
     /\ IndexOf(vehicles[vi].schedule, "dropoff", rid) > 0
     /\ rid \in DOMAIN attempts)
    => ~DetourExceeds(ride_time(vi, rid),
                      straight_line_seconds(requests[rid].o, requests[rid].d),
                      eff_limits(attempts[rid].attempt - 1).detour_ratio_max)

\* C9: when run_batches returns, every served request has had a PICKUP event and
\* then a DROPOFF event, and none is left in a schedule or on board.
HasPickupThenDropoff(rid) ==
  \E i, j \in 1..Len(events) :
    /\ i < j
    /\ events[i].type = "PICKUP" /\ events[i].req_id = rid
    /\ events[j].type = "DROPOFF" /\ events[j].req_id = rid

C9_ServedDelivered ==
  pc = "done" =>
    \A rid \in SeqToSet(served) :
      /\ HasPickupThenDropoff(rid)
      /\ \A vi \in Vehs :
           /\ rid \notin SeqToSet(vehicles[vi].onboard_reqs)
           /\ \A i \in 1..Len(vehicles[vi].schedule) :
                vehicles[vi].schedule[i].req_id # rid

\* C10: for batch_seconds > 0 and a finite request list sorted by t_request,
\* run_batches terminates: every run that keeps taking steps reaches the return.
C10_Terminates == <>(pc = "done")

\* a run that has returned after a retry round, a timeout rejection and a tail flush
C10_Witness ==
  /\ pc = "done"
  /\ \E rid \in ReqIds : retries[rid] > 0 /\ rid \in SeqToSet(rejected)
  /\ \E i \in 1..Len(events) : events[i].type \in {"PICKUP", "DROPOFF"}
  /\ current > t_end + batch_seconds

\* C11: the attempt value of a request in attempts never decreases, and wherever it
\* is written (admission, retry, ASSIGN, REBALANCE_ASSIGN, REJECT) it is between 1
\* and max_retries + 1.
C11_AttemptMonotone ==
  [][ \A rid \in DOMAIN attempts' :
        /\ attempts'[rid].attempt >= 1
        /\ attempts'[rid].attempt <= max_retries + 1
        /\ rid \in DOMAIN attempts => attempts'[rid].attempt >= attempts[rid].attempt ]_vars

\* a request assigned at its last retry level and another rejected at it
C11_Witness ==
  /\ \E rid \in DOMAIN attempts :
       attempts[rid].attempt = max_retries + 1 /\ attempts[rid].final_status = "served"
  /\ \E rid \in DOMAIN attempts :
       attempts[rid].attempt = max_retries + 1 /\ attempts[rid].final_status = "rejected"

\* the retry pass is the step taken at "commit" when no LAP pair is left
InRetryPass == pc = "commit" /\ Len(todo) = 0
Unassigned(rid) == rid \in SeqToSet(pending) /\ rid \notin assigned_ids
TimedOut(rid) == current >= pending_state[rid].deadline

\* C12: in the retry pass a pending request not assigned in the tick with
\* current >= deadline and retry_idx < max_retries gets retry_idx + 1,
\* late_eff = pickup_late_sec + min(wait_bonus_per_retry_sec * new retry_idx,
\* wait_bonus_cap_sec), deadline = t_request + late_eff, and stays pending; one with
\* current < deadline stays pending with its state unchanged.
C12_RetryStep ==
  [][ InRetryPass =>
        \A rid \in ReqIds : Unassigned(rid) =>
          /\ (TimedOut(rid) /\ pending_state[rid].retry_idx < max_retries) =>
               LET k == pending_state[rid].retry_idx + 1
                   bonus == IF wait_bonus_per_retry_sec * k < wait_bonus_cap_sec
                            THEN wait_bonus_per_retry_sec * k ELSE wait_bonus_cap_sec
               IN /\ pending_state'[rid].retry_idx = k
                  /\ pending_state'[rid].late_eff = pickup_late_sec + bonus
                  /\ pending_state'[rid].deadline =
                       requests[rid].t_request + pickup_late_sec + bonus
                  /\ rid \in SeqToSet(pending')
          /\ ~TimedOut(rid) =>
               /\ pending_state'[rid] = pending_state[rid]
               /\ rid \in SeqToSet(pending') ]_vars

\* after a retry pass one request has moved to its next level and another waits on
C12_Witness ==
  /\ pc = "rebalance"
  /\ \E rid \in SeqToSet(pending) :
       /\ pending_state[rid].retry_idx = 1
       /\ current >= requests[rid].t_request + pickup_late_sec
       /\ current < pending_state[rid].deadline
       /\ current < requests[rid].t_request + pickup_late_sec + batch_seconds
  /\ \E rid \in SeqToSet(pending) : pending_state[rid].retry_idx = 0

\* C13: a REJECT event with reason pickup_window_timeout is emitted for a request,
\* and the request leaves pending, exactly when in the retry pass of a tick the
\* request is unassigned, current >= its deadline and retry_idx = max_retries.
NewEvents == SubSeq(events', Len(events) + 1, Len(events'))
TimeoutRejectEmitted(rid) ==
  \E i \in 1..Len(NewEvents) :
    /\ NewEvents[i].type = "REJECT"
    /\ NewEvents[i].reason = "pickup_window_timeout"
    /\ NewEvents[i].req_id = rid

C13_TimeoutReject ==
  [][ \A rid \in ReqIds :
        /\ TimeoutRejectEmitted(rid) <=>
             (/\ InRetryPass
              /\ Unassigned(rid)
              /\ TimedOut(rid)
              /\ pending_state[rid].retry_idx = max_retries)
        /\ TimeoutRejectEmitted(rid) => rid \notin SeqToSet(pending') ]_vars

\* a timeout rejection has happened while another request was kept for a retry
C13_Witness ==
  /\ pc = "rebalance"
  /\ Len(events) > 0
  /\ events[Len(events)].type = "REJECT"
  /\ events[Len(events)].reason = "pickup_window_timeout"
  /\ events[Len(events)].t = current
  /\ Len(pending) > 0

\* C14: when the commit guard refuses a LAP pair (v, r), v's schedule, allowed_late,
\* served, events and reroutes are left unchanged by that pair, and r is still in
\* pending at the start of the next tick.
RefusedCommit == pc = "commit" /\ Len(todo) > 0 /\ ~lastApply'.ok
RefusalFrame ==
  RefusedCommit =>
    /\ vehicles' = vehicles
    /\ allowed_late' = allowed_late
    /\ served' = served
    /\ events' = events
    /\ reroutes' = reroutes

C14_RefusedStaysPending ==
  /\ [][RefusalFrame]_vars
  /\ [](pc = "loop" => \A rid \in refused : rid \in SeqToSet(pending))

\* C14 as the code has it: the refused pair changes nothing of v's schedule,
\* allowed_late, served, events, reroutes or pending, so r is still pending when the
\* retry pass of the tick begins; at the start of the next tick r is pending unless
\* the retry pass of the tick rejected it or rebalance assigned it in that tick.
C14_RefusedKept ==
  /\ [][RefusalFrame /\ (RefusedCommit => pending' = pending)]_vars
  /\ [](InRetryPass => \A rid \in refused : rid \in SeqToSet(pending))
  /\ [](pc = "loop" => \A rid \in refused :
          \/ rid \in SeqToSet(pending)
          \/ rid \in SeqToSet(rejected)
          \/ rid \in served_now)

\* the guard has just refused a pair
C14_Witness ==
  /\ pc = "commit"
  /\ lastApply.called /\ ~lastApply.ok /\ lastApply.at = "commit"
  /\ lastApply.now = current
  /\ lastApply.req_id \in SeqToSet(pending)

\* C15: on an input with a request whose t_request is NaN or no number, run_batches
\* raises no exception, every well-formed request whose time has come is admitted
\* by the admission phase of the tick, and when run_batches returns the malformed
\* request is in rejected with a REJECT event of reason bad_t_request while
\* every other request is in served or rejected.
Malformed(rid) == bad_t_request(requests[rid].t_request)
C15_BadTimestampRejected ==
  /\ pc # "raised"
  /\ pc = "lap" =>
       \A rid \in ReqIds :
         (~Malformed(rid) /\ lt(requests[rid].t_request, plus(current, batch_seconds)))
           => rid <= next_idx
  /\ pc = "done" =>
       \A rid \in ReqIds :
         IF Malformed(rid)
         THEN /\ rid \in SeqToSet(rejected)
              /\ \E i \in 1..Len(events) :
                    /\ events[i].type = "REJECT"
                    /\ events[i].req_id = rid
                    /\ events[i].reason = "bad_t_request"
         ELSE rid \in SeqToSet(served) \cup SeqToSet(rejected)

\* the admission phase has passed over a well-formed request that is due, behind a
\* NaN request that is never admitted
C15_Stuck ==
  /\ pc = "lap"
  /\ next_idx + 1 < total_reqs
  /\ requests[next_idx + 1].t_request = NaN
  /\ lt(requests[next_idx + 2].t_request, current)

\* C16: the pairs solve_lap returns use no row and no column twice, each has a cost
\* below 0.1 * big_m, and together they are the cells below that cut of an
\* assignment of minimum total cost among the complete 1:1 assignments of the
\* matrix (infeasible cells counted at big_m).
LapStep == pc = "lap" /\ pc' = "commit"
cost_now ==
  LET pick == pick_matrix
  IN ListOf(Len(vehicles), LAMBDA i : ListOf(Len(pending), LAMBDA j : pick[i][j].cost_sec))
\* the <<row, column>> pairs behind the decisions the LAP step hands to the commits
PairsReturned ==
  {<<todo'[k].veh_id, CHOOSE j \in 1..Len(pending) : pending[j] = todo'[k].req_id>> :
     k \in 1..Len(todo')}
MinCostAssignments(cost, m, n) ==
  {A \in Assignments(m, n) : \A B \in Assignments(m, n) : SumCost(cost, A) <= SumCost(cost, B)}
CellsBelowCut(cost, A) == {p \in A : cost[p[1]][p[2]] < lap_cut}

C16_LapOptimal ==
  [][LapStep =>
       LET cost == cost_now
           m == Len(vehicles)
           n == Len(pending)
       IN /\ Cardinality(PairsReturned) = Len(todo')
          /\ \A p, q \in PairsReturned : p # q => (p[1] # q[1] /\ p[2] # q[2])
          /\ \A p \in PairsReturned : cost[p[1]][p[2]] < lap_cut
          /\ \E A \in MinCostAssignments(cost, m, n) :
                PairsReturned = CellsBelowCut(cost, A)]_vars

\* C17: on a cost matrix whose entries are all below the cut and whose minimum-cost
\* assignment is unique, the greedy fallback returns the pairs of that assignment,
\* which are the pairs the optimal solver returns.
AllFinite(cost, m, n) == \A i \in 1..m, j \in 1..n : cost[i][j] < lap_cut
C17_GreedyIsOptimal ==
  (/\ pc = "returned"
   /\ lap_io.branch = "fallback"
   /\ AllFinite(lap_io.cost, lap_io.m, lap_io.n)
   /\ Cardinality(MinCostAssignments(lap_io.cost, lap_io.m, lap_io.n)) = 1)
  => /\ SeqToSet(lap_io.pairs) \in MinCostAssignments(lap_io.cost, lap_io.m, lap_io.n)
     /\ \A ps \in lap_optimal(lap_io.cost, lap_io.m, lap_io.n) :
           SeqToSet(ps) = SeqToSet(lap_io.pairs)

\* the fallback has returned on an all-finite matrix with a unique optimum
C17_Witness ==
  /\ pc = "returned"
  /\ lap_io.branch = "fallback"
  /\ lap_io.m = 2 /\ lap_io.n = 2
  /\ AllFinite(lap_io.cost, lap_io.m, lap_io.n)
  /\ Cardinality(MinCostAssignments(lap_io.cost, lap_io.m, lap_io.n)) = 1
  /\ Len(lap_io.pairs) = 2

\* C18: a routing-oracle call that fails during a tick never aborts run_batches, and
\* the tick goes on with straight-line times: the insertion evaluation hands the LAP
\* the decisions it finds with straight-line OD times, and the advancer moves the
\* vehicles by linear interpolation.
pick_plain ==
  ListOf(Len(vehicles), LAMBDA i :
    ListOf(Len(pending), LAMBDA j :
      best_insertion_for_vehicle(pending[j], i,
          eff_limits(Get(pending_state, pending[j], [retry_idx |-> 0]).retry_idx),
          current)))
cost_plain ==
  LET pick == pick_plain
  IN ListOf(Len(vehicles), LAMBDA i : ListOf(Len(pending), LAMBDA j : pick[i][j].cost_sec))

C18_OracleFailureNotFatal ==
  /\ [](pc # "raised")
  /\ [][LapStep =>
          \E pairs \in solve_lap(cost_plain, Len(vehicles), Len(pending)) :
            todo' = [k \in 1..Len(pairs) |-> pick_plain[pairs[k][1]][pairs[k][2]]]]_vars

\* the server has stopped answering while a vehicle is on its way
C18_Witness ==
  /\ osrm.use /\ ~osrm.up
  /\ pc = "advance"
  /\ any_schedule_left

\* C19: within a tick the phases run in the order admission, evaluation and LAP,
\* commits, retry/timeout pass, rebalance, vehicle advance.  A request committed in
\* the tick is skipped by the retry pass; a request the retry pass rejected is not
\* offered to rebalance; rebalance assigns with the retry index the retry pass of
\* the same tick left; and no vehicle moves before every commit and every
\* rebalance assignment of the tick is applied.
PhaseOrder ==
  {<<"loop", "lap">>, <<"loop", "tail">>, <<"lap", "commit">>, <<"commit", "rebalance">>,
   <<"rebalance", "rb_assign">>, <<"rebalance", "advance">>, <<"rb_assign", "advance">>,
   <<"advance", "loop">>, <<"tail", "done">>}
Moved(vi) ==
  \/ vehicles'[vi].lon # vehicles[vi].lon
  \/ vehicles'[vi].onboard_reqs # vehicles[vi].onboard_reqs
  \/ vehicles'[vi].t_avail # vehicles[vi].t_avail
RebalanceAssigned(rid) ==
  /\ pc = "rb_assign"
  /\ Len(rb_pairs) > 0 /\ rb_pairs[1][2] = rid
  /\ lastApply'.called /\ lastApply'.ok /\ lastApply'.at = "rb_assign"
  /\ lastApply'.req_id = rid /\ Len(served') = Len(served) + 1

C19_PhaseOrder ==
  /\ [][pc' # pc => <<pc, pc'>> \in PhaseOrder]_vars
  /\ [][InRetryPass =>
          \A rid \in assigned_ids :
            /\ pending_state'[rid] = pending_state[rid]
            /\ retries'[rid] = retries[rid]
            /\ attempts'[rid] = attempts[rid]
            /\ rid \notin SeqToSet(rejected')]_vars
  /\ [](pc = "rb_assign" =>
          \A k \in 1..Len(rb_pairs) :
            /\ rb_pairs[k][2] \in SeqToSet(pending)
            /\ rb_pairs[k][2] \notin SeqToSet(rejected))
  /\ [](pc \in {"rebalance", "rb_assign"} =>
          \A rid \in SeqToSet(pending) : retries[rid] = pending_state[rid].retry_idx)
  /\ [][\A rid \in ReqIds :
          RebalanceAssigned(rid) =>
            /\ attempts'[rid].attempt = pending_state[rid].retry_idx + 1
            /\ allowed_late'[rid] = eff_limits(pending_state[rid].retry_idx).pickup_late_sec]_vars
  /\ [][(\E vi \in Vehs : Moved(vi)) => pc \in {"advance", "tail"}]_vars
  /\ [](pc = "advance" => (Len(todo) = 0 /\ Len(rb_pairs) = 0))

\* a tick in which the retry pass raised a request's retry index and rebalance then
\* assigned that request, with attempt 2
C19_Witness ==
  /\ pc = "advance"
  /\ Len(events) > 0
  /\ events[Len(events)].type = "REBALANCE_ASSIGN"
  /\ events[Len(events)].t = current
  /\ retries[events[Len(events)].req_id] = 1
  /\ attempts[events[Len(events)].req_id].attempt = 2
  /\ current >= requests[events[Len(events)].req_id].t_request + pickup_late_sec
  /\ current < requests[events[Len(events)].req_id].t_request + pickup_late_sec
                 + batch_seconds

\* C20: in every reachable state each request occurs in the schedule or the onboard
\* list of at most one vehicle, has at most one pickup stop and at most one dropoff
\* stop over all schedules, and occurs there only if it is in served.
Holds(vi, rid) ==
  \/ \E i \in 1..Len(vehicles[vi].schedule) : vehicles[vi].schedule[i].req_id = rid
  \/ rid \in SeqToSet(vehicles[vi].onboard_reqs)
StopCount(kind, rid) ==
  Cardinality({p \in UNION {{<<vi, i>> : i \in 1..Len(vehicles[vi].schedule)} : vi \in Vehs} :
                 /\ vehicles[p[1]].schedule[p[2]].kind = kind
                 /\ vehicles[p[1]].schedule[p[2]].req_id = rid})

C20_OneOwner ==
  \A rid \in ReqIds :
    /\ Cardinality({vi \in Vehs : Holds(vi, rid)}) <= 1
    /\ StopCount("pickup", rid) <= 1
    /\ StopCount("dropoff", rid) <= 1
    /\ (\E vi \in Vehs : Holds(vi, rid)) => rid \in SeqToSet(served)

\* two requests are owned at the same time, one by each of two vehicles
C20_Witness ==
  /\ Len(vehicles) = 2
  /\ \E r1, r2 \in ReqIds :
       /\ r1 # r2
       /\ Holds(1, r1) /\ StopCount("pickup", r1) = 1 /\ StopCount("dropoff", r1) = 1
       /\ Holds(2, r2) /\ r2 \in SeqToSet(vehicles[2].onboard_reqs)

\* C21: with an empty fleet no request is ever served; every request is rejected
\* with reason pickup_window_timeout, at its last retry level and in the first tick
\* at or after its last deadline; and the run returns with every request rejected.
LastDeadline(rid) == requests[rid].t_request + eff_limits(max_retries).pickup_late_sec
C21_EmptyFleet ==
  /\ [](Len(vehicles) = 0 =>
          /\ served = <<>>
          /\ \A i \in 1..Len(events) :
               /\ events[i].type = "REJECT"
               /\ events[i].reason = "pickup_window_timeout"
               /\ events[i].t >= LastDeadline(events[i].req_id)
               /\ events[i].t < LastDeadline(events[i].req_id) + batch_seconds
               /\ retries[events[i].req_id] = max_retries
               /\ attempts[events[i].req_id] =
                    [attempt |-> max_retries + 1, final_status |-> "rejected"])
  /\ (Len(vehicles) = 0 => <>(pc = "done" /\ SeqToSet(rejected) = ReqIds))

\* a run without vehicles has returned with its requests rejected in different ticks
C21_Witness ==
  /\ Len(vehicles) = 0
  /\ pc = "done"
  /\ Len(rejected) = total_reqs
  /\ \E i, j \in 1..Len(events) : events[i].t < events[j].t

\* the call of best_insertion_for_vehicle under check: the new request, the vehicle
InsVeh == vehicles[1]
\* every pair (i, j) with 0 <= i <= n and i + 1 <= j <= n + 1
AllPairs(n) == {ij \in (0..n) \X (1..(n + 1)) : ij[1] + 1 <= ij[2]}
InsTrial(ij) == Trial(InsVeh.schedule, InsRid, ij[1], ij[2])
InsEval(ij, P) == evaluate_feasibility_and_cost(InsVeh, InsTrial(ij), InsRid, P, current)
FeasiblePairs(P) == {ij \in AllPairs(Len(InsVeh.schedule)) : InsEval(ij, P).feas}
LexLeq(a, b) == a[1] < b[1] \/ (a[1] = b[1] /\ a[2] <= b[2])
WindowsUnset == ins_io.pick_window = NoWindow /\ ins_io.drop_window = NoWindow

\* C22: with both insertion windows unset, best_insertion_for_vehicle returns a
\* decision iff some pair (i, j), 0 <= i <= n, i + 1 <= j <= n + 1, gives a feasible
\* trial; the schedule returned is a feasible trial of least total simulated
\* duration, and among those of equal cost the one of the smallest i, then j.
C22_BestInsertion ==
  (pc = "returned" /\ WindowsUnset) =>
    LET P    == InsParams(NoWindow, NoWindow)
        Feas == FeasiblePairs(P)
    IN /\ (ins_io.dec # NoDecision) <=> (Feas # {})
       /\ ins_io.dec # NoDecision =>
            \E ij \in Feas :
              /\ ins_io.dec.new_schedule = InsTrial(ij)
              /\ ins_io.dec.req_id = InsRid
              /\ ins_io.dec.cost_sec = simulate_schedule(InsVeh.lon, InsTrial(ij)).total
              /\ \A other \in Feas :
                   LET c == simulate_schedule(InsVeh.lon, InsTrial(other)).total
                   IN \/ ins_io.dec.cost_sec < c
                      \/ ins_io.dec.cost_sec = c /\ LexLeq(ij, other)

\* a call with the windows unset that found two cheapest trials of equal cost and a
\* dearer one, and left an infeasible position aside
C22_Witness ==
  /\ pc = "returned" /\ WindowsUnset
  /\ ins_io.dec # NoDecision
  /\ LET P == InsParams(NoWindow, NoWindow)
         Feas == FeasiblePairs(P)
     IN /\ Cardinality({ij \in Feas : InsEval(ij, P).cost = ins_io.dec.cost_sec}) >= 2
        /\ \E ij \in Feas : InsEval(ij, P).cost > ins_io.dec.cost_sec
        /\ Feas # AllPairs(Len(InsVeh.schedule))

\* C23: when insert_pick_window = k and insert_drop_window = lambda are set,
\* best_insertion_for_vehicle tries exactly the pickup positions i in
\* [0 .. min(n, k)] and, for each i, the dropoff positions j in
\* [i + 1 .. min(n + 1, i + 1 + lambda)], for every k >= 0 and lambda >= 0.
WindowsSet == ins_io.pick_window # NoWindow /\ ins_io.drop_window # NoWindow
TriedPairs == {<<ins_io.trials[x].i, ins_io.trials[x].j>> : x \in 1..Len(ins_io.trials)}
C23_WindowedScan ==
  (pc = "returned" /\ WindowsSet) =>
    LET n   == Len(InsVeh.schedule)
        k   == ins_io.pick_window
        lam == ins_io.drop_window
        iLast == IF n < k THEN n ELSE k
        jLast(i) == IF n + 1 < i + 1 + lam THEN n + 1 ELSE i + 1 + lam
    IN /\ TriedPairs = {ij \in (0..iLast) \X (1..(n + 1)) :
                          ij[1] + 1 <= ij[2] /\ ij[2] <= jLast(ij[1])}
       /\ Cardinality(TriedPairs) = Len(ins_io.trials)

\* a call with both windows 0 on a vehicle that has a stop to make
C23_Witness ==
  /\ pc = "returned"
  /\ ins_io.pick_window = 0 /\ ins_io.drop_window = 0
  /\ Len(InsVeh.schedule) >= 1
  /\ <<1, 2>> \in TriedPairs

\* C24: every InsertionDecision best_insertion_for_vehicle returns during a run, at
\* every retry index from 0 to max_retries, has the new request's dropoff arriving
\* at now + arrival <= drop_deadline_abs.
DropEtaOK(dec, vi) ==
  dec # NoDecision =>
    current + simulate_schedule(vehicles[vi].lon, dec.new_schedule)
                .arrivals[IndexOf(dec.new_schedule, "dropoff", dec.req_id)]
      <= drop_deadline_abs
\* the decision _try_immediate_assign gets for the head rebalance pair
rb_decision ==
  best_insertion_for_vehicle(rb_pairs[1][2], rb_pairs[1][1],
                             eff_limits(Get(retries, rb_pairs[1][2], 0)), current)
C24_DecisionDropDeadline ==
  /\ pc = "lap" =>
       \A vi \in Vehs : \A j \in 1..Len(pending) : DropEtaOK(pick_plain[vi][j], vi)
  /\ (pc = "rb_assign" /\ Len(rb_pairs) > 0) => DropEtaOK(rb_decision, rb_pairs[1][1])

\* a decision is returned for a request at retry index 1
C24_Witness ==
  /\ pc = "rb_assign" /\ Len(rb_pairs) > 0
  /\ Get(retries, rb_pairs[1][2], 0) = 1
  /\ rb_decision # NoDecision

\* C25: with all other checks passing, evaluate_feasibility_and_cost accepts a
\* trial whose new pickup arrives exactly at t_request + pickup_late_sec, and one
\* whose pickup arrives exactly at t_request; it rejects a trial whose pickup
\* arrives later than t_request + pickup_late_sec or earlier than t_request.
InsP == InsParams(ins_io.pick_window, ins_io.drop_window)
\* the arrival times of the new request's pickup and dropoff in the trial of <<i, j>>
TrialPickAt(ij) ==
  current + simulate_schedule(InsVeh.lon, InsTrial(ij)).arrivals[ij[1] + 1]
TrialDropAt(ij) ==
  current + simulate_schedule(InsVeh.lon, InsTrial(ij)).arrivals[ij[2] + 1]
\* the checks other than the pickup window: length, capacity, dropoffs of the
\* passengers, detour ratio, drop deadline
OtherChecksPass(ij) ==
  /\ Len(InsTrial(ij)) <= 2 * vehicle_capacity
  /\ PlainWalkIn(InsTrial(ij), 1, Len(InsVeh.onboard_reqs))
  /\ \A q \in SeqToSet(InsVeh.onboard_reqs) :
       \E x \in 1..Len(InsTrial(ij)) :
         InsTrial(ij)[x].kind = "dropoff" /\ InsTrial(ij)[x].req_id = q
  /\ 4 * (TrialDropAt(ij) - TrialPickAt(ij) - service_time_sec)
       <= detour_ratio_max_q * Abs(requests[InsRid].o - requests[InsRid].d)
  /\ TrialDropAt(ij) <= requests[total_reqs].t_request + tail_flush_max_sec

C25_PickupWindowEdges ==
  pc = "returned" =>
    \A x \in 1..Len(ins_io.trials) :
      LET ij    == <<ins_io.trials[x].i, ins_io.trials[x].j>>
          t_req == requests[InsRid].t_request
          late  == InsP.pickup_late_sec
      IN /\ (OtherChecksPass(ij) /\ TrialPickAt(ij) = t_req + late)
              => ins_io.trials[x].ev.feas
         /\ (OtherChecksPass(ij) /\ TrialPickAt(ij) = t_req)
              => ins_io.trials[x].ev.feas
         /\ TrialPickAt(ij) > t_req + late => ~ins_io.trials[x].ev.feas
         /\ TrialPickAt(ij) < t_req => ~ins_io.trials[x].ev.feas

\* one call whose trials have a pickup exactly at the late bound, accepted, and a
\* pickup one second or more behind it that passes every other check
C25_Witness ==
  /\ pc = "returned"
  /\ \E x, y \in 1..Len(ins_io.trials) :
       LET a == <<ins_io.trials[x].i, ins_io.trials[x].j>>
           b == <<ins_io.trials[y].i, ins_io.trials[y].j>>
       IN /\ TrialPickAt(a) = requests[InsRid].t_request + pickup_late_sec
          /\ ins_io.trials[x].ev.feas
          /\ TrialPickAt(b) > requests[InsRid].t_request + pickup_late_sec
          /\ OtherChecksPass(b)
          /\ ~ins_io.trials[y].ev.feas

\* a call with a trial whose pickup is exactly at t_request, accepted
C25_AtRequestTime ==
  /\ pc = "returned"
  /\ \E x \in 1..Len(ins_io.trials) :
       /\ TrialPickAt(<<ins_io.trials[x].i, ins_io.trials[x].j>>) = requests[InsRid].t_request
       /\ ins_io.trials[x].ev.feas

\* a call with a trial that only the early pickup makes infeasible
C25_Early ==
  /\ pc = "returned"
  /\ \E x \in 1..Len(ins_io.trials) :
       /\ TrialPickAt(<<ins_io.trials[x].i, ins_io.trials[x].j>>) < requests[InsRid].t_request
       /\ OtherChecksPass(<<ins_io.trials[x].i, ins_io.trials[x].j>>)

\* C26: one call of advance_vehicles with dt = batch_seconds consumes exactly dt of
\* simulated time per vehicle: every vehicle's t_avail increases by exactly dt,
\* whether its schedule is empty, it ends the tick part-way along a leg, or it
\* completes one or more stops (travel plus service_time_sec) during the tick.
AdvanceStep == (pc = "advance" /\ pc' = "loop") \/ (pc = "tail" /\ pc' = "tail")
C26_TickConsumesDt ==
  [][AdvanceStep =>
       \A vi \in Vehs : vehicles'[vi].t_avail = vehicles[vi].t_avail + batch_seconds]_vars

\* a tick has ended in which a vehicle served a stop and was then part of the way
\* to its next stop
C26_Witness ==
  /\ pc = "loop"
  /\ \E vi \in Vehs :
       /\ Len(vehicles[vi].schedule) > 0
       /\ vehicles[vi].lon # vehicles[vi].schedule[1].lon
       /\ \E x \in 1..Len(events) :
            /\ events[x].veh_id = vi
            /\ events[x].type \in {"PICKUP", "DROPOFF"}
            /\ events[x].t > current - batch_seconds

\* C27: every PICKUP and DROPOFF event emitted by advance_vehicles(now, dt) has the
\* timestamp now + (dt - remaining_dt), remaining_dt being what is left of the
\* vehicle's tick after the travel time and the service_time_sec of the stop just
\* served are subtracted: the moment the service of the stop ends.
\* the time the tick has used when the stop (kind, rid) of vehicle vi has been served
ServedAfter(vi, kind, rid) ==
  simulate_schedule(vehicles[vi].lon, vehicles[vi].schedule)
    .arrivals[IndexOf(vehicles[vi].schedule, kind, rid)] + service_time_sec
C27_EventTimestamp ==
  [][AdvanceStep =>
       \A x \in 1..Len(NewEvents) :
         LET e == NewEvents[x]
             kind == IF e.type = "PICKUP" THEN "pickup" ELSE "dropoff"
         IN /\ e.type \in {"PICKUP", "DROPOFF"}
            /\ IndexOf(vehicles[e.veh_id].schedule, kind, e.req_id) > 0
            /\ e.t = current + ServedAfter(e.veh_id, kind, e.req_id)]_vars

\* a vehicle has served two stops in one tick, at different times
C27_Witness ==
  /\ pc = "loop"
  /\ \E x, y \in 1..Len(events) :
       /\ events[x].type = "PICKUP" /\ events[y].type = "DROPOFF"
       /\ events[x].veh_id = events[y].veh_id
       /\ events[x].t > current - batch_seconds
       /\ events[x].t < events[y].t

\* C28: assign_idle_to_rejected returns pairs in which every vehicle and every
\* request occurs at most once, the requests are taken in ascending t_request, the
\* vehicle chosen for a request is one of the (at most 3) lowest-scoring idle
\* vehicles not yet paired in the call, and the number of pairs is
\* min(number of idle vehicles, number of hot requests).
\* the idle vehicles not paired before the k-th pair
IdleLeftAt(k) == SeqToSet(idle_vehicles) \ {rb_pairs[x][1] : x \in 1..(k - 1)}
Score(vi, rid) == Abs(vehicles[vi].lon - requests[rid].o)
C28_RebalancePairs ==
  pc = "returned" =>
    /\ \A x, y \in 1..Len(rb_pairs) :
         x # y => (rb_pairs[x][1] # rb_pairs[y][1] /\ rb_pairs[x][2] # rb_pairs[y][2])
    /\ \A x \in 1..Len(rb_pairs) : rb_pairs[x][2] \in SeqToSet(pending)
    /\ \A x, y \in 1..Len(rb_pairs) :
         x < y => requests[rb_pairs[x][2]].t_request <= requests[rb_pairs[y][2]].t_request
    /\ \A k \in 1..Len(rb_pairs) :
         /\ rb_pairs[k][1] \in IdleLeftAt(k)
         /\ Cardinality({vi \in IdleLeftAt(k) :
                           Score(vi, rb_pairs[k][2]) < Score(rb_pairs[k][1], rb_pairs[k][2])}) < 3
    /\ Len(rb_pairs) = IF Len(idle_vehicles) < Len(pending) THEN Len(idle_vehicles)
                       ELSE Len(pending)

\* a call with four idle vehicles and three hot requests out of t_request order, in
\* which the farthest vehicle was left out for the first request
C28_Witness ==
  /\ pc = "returned"
  /\ Len(idle_vehicles) = 4 /\ pending = <<3, 1, 2>>
  /\ requests[1].t_request < requests[3].t_request
  /\ Len(rb_pairs) = 3
  /\ \E vi \in IdleLeftAt(1) :
       Cardinality({w \in IdleLeftAt(1) : Score(w, rb_pairs[1][2]) < Score(vi, rb_pairs[1][2])}) = 3

\* C29: for each rebalance pair (v, r): if inserting r into v with r's current retry
\* index passes the evaluator and the commit guard, a REBALANCE_ASSIGN event is
\* emitted, r is added to served and is removed from pending by the end of the
\* rebalance phase; otherwise v's schedule, allowed_late, served, events and
\* reroutes are unchanged and r is still pending at the next tick.
RbPairStep == pc = "rb_assign" /\ Len(rb_pairs) > 0
RbPhase == pc \in {"rb_assign", "advance"}
RbPasses ==
  /\ rb_decision # NoDecision
  /\ sched_apply(vehicles[rb_pairs[1][1]], rb_decision, current, allowed_late,
                 eff_limits(Get(retries, rb_pairs[1][2], 0)).pickup_late_sec)
C29_RebalanceOutcome ==
  /\ [][RbPairStep =>
          LET vi  == rb_pairs[1][1]
              rid == rb_pairs[1][2]
          IN IF RbPasses
             THEN /\ Len(events') = Len(events) + 1
                  /\ events'[Len(events')].type = "REBALANCE_ASSIGN"
                  /\ events'[Len(events')].req_id = rid
                  /\ events'[Len(events')].veh_id = vi
                  /\ events'[Len(events')].t = current
                  /\ served' = Append(served, rid)
                  /\ rid \in served_now'
                  /\ vehicles'[vi].schedule = rb_decision.new_schedule
             ELSE /\ vehicles' = vehicles
                  /\ allowed_late' = allowed_late
                  /\ served' = served
                  /\ events' = events
                  /\ reroutes' = reroutes
                  /\ rid \in SeqToSet(pending')
                  /\ rid \notin served_now'
       ]_vars
  /\ [][RbPhase =>
          \A rid \in SeqToSet(pending) :
            (IF rid \in served_now' THEN pc' = "advance" => rid \notin SeqToSet(pending')
             ELSE rid \in SeqToSet(pending'))]_vars
  /\ [](pc \in {"advance", "loop"} => SeqToSet(pending) \cap SeqToSet(served) = {})

\* the rebalance phase of a tick has assigned one request and failed with another,
\* whose vehicle is still idle
C29_Witness ==
  /\ pc = "advance"
  /\ Len(pending) > 0
  /\ Len(idle_vehicles) > 0
  /\ Len(events) > 0
  /\ events[Len(events)].type = "REBALANCE_ASSIGN"
  /\ events[Len(events)].t = current

\* C30: allowed_late(r) is written exactly when r is first successfully committed
\* (ASSIGN or REBALANCE_ASSIGN), with the late bound of r's retry index at that
\* moment, and its value never changes afterwards; a commit refused by the guard
\* does not write it.
Committed(rid) ==
  \E i \in (Len(events) + 1)..Len(events') :
    /\ events'[i].type \in {"ASSIGN", "REBALANCE_ASSIGN"}
    /\ events'[i].req_id = rid
GuardRefused ==
  /\ pc \in {"commit", "rb_assign"}
  /\ lastApply' # lastApply
  /\ lastApply'.called /\ ~lastApply'.ok
C30_AllowedLateFixed ==
  [][/\ \A rid \in ReqIds :
          /\ Committed(rid) <=> (rid \notin DOMAIN allowed_late /\ rid \in DOMAIN allowed_late')
          /\ Committed(rid) =>
               allowed_late'[rid] =
                 eff_limits(Get(pending_state, rid, [retry_idx |-> 0]).retry_idx).pickup_late_sec
          /\ rid \in DOMAIN allowed_late =>
               (rid \in DOMAIN allowed_late' /\ allowed_late'[rid] = allowed_late[rid])
     /\ GuardRefused => allowed_late' = allowed_late
    ]_vars

\* a commit of this tick was refused by the guard and left no entry, while another
\* request holds the late bound it was committed with
C30_Witness ==
  /\ refused # {}
  /\ refused \cap DOMAIN allowed_late = {}
  /\ \E rid \in DOMAIN allowed_late :
       allowed_late[rid] = eff_limits(Get(retries, rid, 0)).pickup_late_sec

\* C31: for every parameter set with non-negative bonus and cap values and all retry
\* indices 0 <= k < k2 <= max_retries, the effective bounds at k2 are no stricter
\* than at k: pickup_late_sec and detour_ratio_max do not decrease.
C31_RelaxMonotone ==
  (pc = "returned" /\ eff_io.k < eff_io.k2) =>
    /\ eff_io.hi.pickup_late_sec >= eff_io.lo.pickup_late_sec
    /\ eff_io.hi.detour_ratio_max >= eff_io.lo.detour_ratio_max

\* a cap below the base ratio: the first retry lowers detour_ratio_max
C31_Witness ==
  /\ pc = "returned"
  /\ eff_io.k = 0 /\ eff_io.k2 = 1
  /\ eff_io.P.detour_bonus_cap < eff_io.P.detour_ratio_max
  /\ eff_io.lo.detour_ratio_max = eff_io.P.detour_ratio_max
  /\ eff_io.hi.detour_ratio_max = eff_io.P.detour_bonus_cap
  /\ eff_io.hi.detour_ratio_max < eff_io.lo.detour_ratio_max

\* C32: the result of the commit phase of a tick (final schedule of every vehicle,
\* allowed_late, the requests in served, and the set of recorded reroutes) is the
\* same for every order in which the LAP pairs of that tick are applied.
Orders(n) == {f \in [1..n -> 1..n] : {f[i] : i \in 1..n} = 1..n}
Reordered(decs, f) == [i \in 1..Len(decs) |-> decs[f[i]]]
SameOutcome(a, b) ==
  /\ a.vehicles = b.vehicles
  /\ a.allowed_late = b.allowed_late
  /\ SeqToSet(a.served) = SeqToSet(b.served)
  /\ SeqToSet(a.reroutes) = SeqToSet(b.reroutes)
CommitStep == pc = "commit" /\ Len(todo) > 0
EventsOf(rid) == {i \in 1..Len(events) : events[i].req_id = rid}
EventsOfType(rid, types) == {i \in EventsOf(rid) : events[i].type \in types}
ServedLife(rid) ==
  LET A == EventsOfType(rid, {"ASSIGN", "REBALANCE_ASSIGN"})
      U == EventsOfType(rid, {"PICKUP"})
      D == EventsOfType(rid, {"DROPOFF"})
  IN /\ EventsOf(rid) = A \cup U \cup D
     /\ Cardinality(A) = 1 /\ Cardinality(U) <= 1 /\ Cardinality(D) <= 1
     /\ \A a \in A, u \in U : a < u
     /\ \A a \in A, d \in D : a < d
     /\ \A u \in U, d \in D : u < d
     /\ \A i, j \in EventsOf(rid) :
          /\ events[i].veh_id = events[j].veh_id
          /\ i < j => events[i].t <= events[j].t
RejectedLife(rid) ==
  /\ Cardinality(EventsOf(rid)) = 1
  /\ \A i \in EventsOf(rid) : events[i].type = "REJECT"
  /\ rid \notin SeqToSet(pending)
C33_EventOrder ==
  \A rid \in ReqIds :
    EventsOf(rid) # {} =>
      IF EventsOfType(rid, {"REJECT"}) # {} THEN RejectedLife(rid) ELSE ServedLife(rid)

\* one request has gone through ASSIGN, PICKUP and DROPOFF and another one was
\* rejected
C33_Witness ==
  \E r1, r2 \in ReqIds :
    /\ Cardinality(EventsOf(r1)) = 3
    /\ EventsOfType(r1, {"ASSIGN"}) # {}
    /\ EventsOfType(r2, {"REJECT"}) # {}
    /\ pc = "loop"

\* C34: whenever the main loop of run_batches exits, pending is empty; so no REJECT
\* event with reason end_flush is ever emitted, and every timeout rejection happens
\* inside the main loop (in the retry/timeout pass of a tick).
LoopLeft == pc = "loop" /\ pc' = "tail"
RejectEmitted ==
  \E i \in (Len(events) + 1)..Len(events') : events'[i].type = "REJECT"
C34_NoEndFlush ==
  /\ [][LoopLeft => pending = <<>>]_vars
  /\ [](pc \in {"tail", "done"} => pending = <<>>)
  /\ [](\A i \in 1..Len(events) : events[i].reason # "end_flush")
  /\ [][RejectEmitted =>
          /\ InRetryPass
          /\ \A i \in (Len(events) + 1)..Len(events') :
               events'[i].reason = "pickup_window_timeout"]_vars

\* the run is over, the end flush found nothing pending, and a request was rejected
\* by timeout before
C34_Witness ==
  /\ pc = "done"
  /\ pending = <<>>
  /\ \E i \in 1..Len(events) :
       events[i].type = "REJECT" /\ events[i].reason = "pickup_window_timeout"

\* C35: for every decision best_insertion_for_vehicle produces against a vehicle's
\* current schedule, _sched_apply returns False if and only if the new schedule makes
\* the predicted pickup ETA of a pickup already in that schedule later than before;
\* its onboard-dropoff check, its presence check of the new pickup and dropoff and
\* its policy-deadline check never fail on their own.
GuardOnlyRegression(dec, vi, rid) ==
  LET k_try == Get(pending_state, rid, [retry_idx |-> 0]).retry_idx
      late_eff == eff_limits(k_try).pickup_late_sec
      v == vehicles[vi]
  IN dec # NoDecision =>
       /\ IntegrityOK(v, dec)
       /\ PolicyGuardOK(v, dec, current, allowed_late, late_eff) \/ ~NoRegressionOK(v, dec, current)
       /\ sched_apply(v, dec, current, allowed_late, late_eff) <=> NoRegressionOK(v, dec, current)
C35_GuardOnlyRegression ==
  /\ pc = "lap" =>
       \A vi \in Vehs : \A j \in 1..Len(pending) :
         GuardOnlyRegression(pick_plain[vi][j], vi, pending[j])
  /\ (pc = "rb_assign" /\ Len(rb_pairs) > 0) =>
       GuardOnlyRegression(rb_decision, rb_pairs[1][1], rb_pairs[1][2])
  /\ lastApply.called =>
       (lastApply.ok <=>
          NoRegressionOK([lon |-> lastApply.lon, schedule |-> lastApply.before],
                         [new_schedule |-> lastApply.after], lastApply.now))

\* the evaluator returns a decision that delays a pickup already scheduled: the
\* guard refuses it
C35_Witness ==
  /\ pc = "lap"
  /\ \E vi \in Vehs : \E j \in 1..Len(pending) :
       LET dec == pick_plain[vi][j]
       IN /\ dec # NoDecision
          /\ ~NoRegressionOK(vehicles[vi], dec, current)
          /\ ~sched_apply(vehicles[vi], dec, current, allowed_late,
                          eff_limits(Get(pending_state, pending[j],
                                         [retry_idx |-> 0]).retry_idx).pickup_late_sec)

\* C36: with service_time_sec > 0 and straight-line travel times, every committed
\* schedule has both newly inserted stops after every pickup stop that was already in
\* the vehicle's schedule: an insertion that puts the new pickup or dropoff before an
\* existing pickup is never committed.
OldPickups(before, after) ==
  {i \in 1..Len(after) :
     /\ after[i].kind = "pickup"
     /\ IndexOf(before, "pickup", after[i].req_id) # 0}
C36_NewStopsAfterPickups ==
  (service_time_sec > 0 /\ ~osrm.use /\ lastApply.called /\ lastApply.ok) =>
    \A i \in OldPickups(lastApply.before, lastApply.after) :
      /\ i < IndexOf(lastApply.after, "pickup", lastApply.req_id)
      /\ i < IndexOf(lastApply.after, "dropoff", lastApply.req_id)

\* a request was committed into a schedule that held a pickup still to be made
C36_Witness ==
  /\ lastApply.called /\ lastApply.ok
  /\ OldPickups(lastApply.before, lastApply.after) # {}
  /\ IndexOf(lastApply.after, "pickup", lastApply.req_id) # 0

\* C37: with straight-line travel times, for every PICKUP event of a request r the
\* time at which the advancer arrives at the pickup stop (t_end of the non-partial
\* move before the event) satisfies t_request(r) <= arrival <= t_request(r) +
\* allowed_late(r), and is never later than the ETA predicted for that stop at the
\* last commit on that vehicle.
\* The prediction of the last commit is bounded in two ways: the ETA predicted from
\* a vehicle's place at the start of a tick never grows while the vehicle advances
\* (and a commit replaces it by the commit's own prediction), and where the last
\* call of _sched_apply is that commit, its prediction is compared directly.
TickMoves(vi) == full_moves(vehicles[vi], vi, batch_seconds, batch_seconds, current)
TickEvents(vi) ==
  advance_one(vehicles[vi], vi, batch_seconds, batch_seconds, current, <<>>).evs
CommitEta(rid) ==
  lastApply.now + simulate_schedule(lastApply.lon, lastApply.after)
                    .arrivals[IndexOf(lastApply.after, "pickup", rid)]
LastCommitOn(vi) ==
  /\ lastApply.called /\ lastApply.ok
  /\ lastApply.veh_id = vi
  /\ \A x \in 1..Len(reroutes) :
       reroutes[x].veh_id = vi => reroutes[x].t <= lastApply.now
C37_PickupArrival ==
  [][AdvanceStep =>
       \A vi \in Vehs :
         /\ Len(TickMoves(vi)) = Len(TickEvents(vi))
         /\ \A x \in 1..Len(TickMoves(vi)) :
              LET e == TickEvents(vi)[x]
                  arrival == TickMoves(vi)[x].t_end
                  rid == e.req_id
              IN e.type = "PICKUP" =>
                   /\ requests[rid].t_request <= arrival
                   /\ arrival <= requests[rid].t_request + allowed_late[rid]
                   /\ arrival <= Eta(vi)[IndexOf(vehicles[vi].schedule, "pickup", rid)]
                   /\ LastCommitOn(vi) => arrival <= CommitEta(rid)
         /\ \A j \in 1..Len(vehicles'[vi].schedule) :
              Eta(vi)'[j] <= Eta(vi)[j + Len(TickEvents(vi))]]_vars

\* a pickup is reached in a later tick than the one of its commit, after another
\* stop of the same vehicle
C37_Witness ==
  /\ pc \in {"loop", "tail"}
  /\ \E x, y \in 1..Len(events) :
       /\ x < y
       /\ events[y].type = "PICKUP"
       /\ events[x].type \in {"PICKUP", "DROPOFF"}
       /\ events[x].veh_id = events[y].veh_id
       /\ events[x].req_id # events[y].req_id
       /\ \E a \in EventsOfType(events[y].req_id, {"ASSIGN", "REBALANCE_ASSIGN"}) :
            events[a].t + batch_seconds <= events[y].t

\* C38: within one tick each vehicle's schedule is replaced by at most one commit
\* (LAP ASSIGN and REBALANCE_ASSIGN taken together), so the schedule the guard uses
\* as baseline is the schedule the decision was evaluated against, and each vehicle
\* gains at most one new request (two stops) per tick.
WithoutRequest(sched, rid) == SelectSeq(sched, LAMBDA st : st.req_id # rid)
C38_OneCommitPerTick ==
  /\ \A x, y \in 1..Len(reroutes) :
       (x # y /\ reroutes[x].veh_id = reroutes[y].veh_id) => reroutes[x].t # reroutes[y].t
  /\ \A x \in 1..Len(reroutes) :
       Len(reroutes[x].after) = Len(reroutes[x].before) + 2
  /\ pc = "commit" =>
       \A k \in 1..Len(todo) :
         /\ WithoutRequest(todo[k].new_schedule, todo[k].req_id)
              = vehicles[todo[k].veh_id].schedule
         /\ \A x \in 1..Len(reroutes) :
              reroutes[x].veh_id = todo[k].veh_id => reroutes[x].t < current
  /\ pc = "rb_assign" =>
       \A k \in 1..Len(rb_pairs) :
         /\ vehicles[rb_pairs[k][1]].schedule = <<>>
         /\ \A x \in 1..Len(reroutes) :
              reroutes[x].veh_id = rb_pairs[k][1] => reroutes[x].t < current
  /\ (lastApply.called /\ lastApply.ok) =>
       WithoutRequest(lastApply.after, lastApply.req_id) = lastApply.before

\* two requests were pending in one tick; the vehicle gained one of them in that
\* tick and the other one in a later tick
C38_Witness ==
  \E x, y \in 1..Len(events) :
    /\ events[x].type = "ASSIGN" /\ events[y].type = "ASSIGN"
    /\ events[x].veh_id = events[y].veh_id
    /\ events[x].t < events[y].t
    /\ requests[events[y].req_id].t_request < events[x].t + batch_seconds
    /\ Len(reroutes) >= 2

\* C39: for every request that has been admitted, at all times 0 <= retry_idx <=
\* max_retries, late_eff = pickup_late_sec + min(wait_bonus_per_retry_sec * retry_idx,
\* wait_bonus_cap_sec), deadline = t_request + late_eff, retries[r] = retry_idx, and
\* late_eff equals the pickup_late_sec of the relaxed parameter set
\* _eff_limits(P, retry_idx) that is given to the evaluator and to the commit guard.
RetryStateOK(rid) ==
  LET st == pending_state[rid]
  IN /\ 0 <= st.retry_idx /\ st.retry_idx <= max_retries
     /\ st.late_eff = pickup_late_sec
                      + Min2(wait_bonus_per_retry_sec * st.retry_idx, wait_bonus_cap_sec)
     /\ st.deadline = requests[rid].t_request + st.late_eff
     /\ rid \in DOMAIN retries /\ retries[rid] = st.retry_idx
     /\ st.late_eff = eff_limits(st.retry_idx).pickup_late_sec
C39_RetryStateConsistent ==
  /\ DOMAIN pending_state = 1..next_idx
  /\ \A rid \in 1..next_idx : RetryStateOK(rid)
  /\ (lastApply.called /\ lastApply.ok /\ lastApply.now = current
      /\ pc \in {"commit", "rebalance", "rb_assign", "advance"}) =>
       allowed_late[lastApply.req_id] = pending_state[lastApply.req_id].late_eff

\* a request is waiting at the last retry index, and a request was committed in
\* this tick after a retry
C39_Witness ==
  /\ \E rid \in SeqToSet(pending) :
       /\ pending_state[rid].retry_idx = max_retries
       /\ pending_state[rid].late_eff > pickup_late_sec
  /\ \E rid \in SeqToSet(served) : pending_state[rid].retry_idx >= 1

\* C40: every request of a time-sorted input is admitted to pending exactly once, in
\* input order, in the unique tick whose window [current, current + batch_seconds)
\* contains its t_request: at admission current <= t_request < current +
\* batch_seconds, and pending never holds the same request twice.
AdmitStep == pc = "loop" /\ pc' # "loop"
InTick == pc \in {"lap", "commit", "rebalance", "rb_assign", "advance"}
C40_AdmittedOnce ==
  /\ [][AdmitStep =>
          /\ next_idx' >= next_idx
          /\ pending' = pending \o [i \in 1..(next_idx' - next_idx) |-> next_idx + i]
          /\ \A rid \in (next_idx + 1)..next_idx' :
               /\ current <= requests[rid].t_request
               /\ requests[rid].t_request < current + batch_seconds]_vars
  /\ [][~AdmitStep =>
          /\ next_idx' = next_idx
          /\ SeqToSet(pending') \subseteq SeqToSet(pending)]_vars
  /\ [](NoDup(pending) /\ SeqToSet(pending) \subseteq 1..next_idx)
  /\ [](InTick =>
          \A rid \in ReqIds : rid <= next_idx <=> requests[rid].t_request < current + batch_seconds)
  /\ [](pc \in {"tail", "done"} => next_idx = total_reqs)

\* a request is admitted in a later tick than the first one, before its t_request,
\* while an earlier request is still pending
C40_Witness ==
  /\ pc = "lap"
  /\ Len(pending) >= 2
  /\ current > requests[1].t_request
  /\ pending[Len(pending)] = next_idx
  /\ requests[next_idx].t_request > current
  /\ pending_state[next_idx].deadline = requests[next_idx].t_request + pickup_late_sec
  /\ \A x \in 1..Len(events) : events[x].req_id # next_idx

====
